---- MODULE Spec2Model ----
(***************************************************************************)
(* Model of the evaluation core of metapolymarket: the Kelly stake         *)
(* calculator of the /api/analyze server, the resolution of stored         *)
(* predictions by the cloud functions, and the scoring of resolved         *)
(* predictions by the history service.                                     *)
(*                                                                         *)
(* Numbers.  Probabilities and prices are fixed-point integers in units    *)
(* of 1/One (One = 100, so 0.70 is 70).  A Kelly percentage is an integer  *)
(* in units of 1/KellyUnit percent (65.00% is 6500), which is exactly the  *)
(* precision Math.round(f * 10000) / 100 keeps.  Quotients that the code   *)
(* keeps as floats (a realized return, a ROI) are exact rationals          *)
(* <<numerator, denominator>> with a positive denominator.  The model      *)
(* computes over the rationals; IEEE rounding error is not modelled.       *)
(*                                                                         *)
(* A JavaScript value handed to Number() is [fin |-> TRUE, v |-> n] when   *)
(* it converts to the finite number n, and NaN (fin = FALSE) when it is    *)
(* undefined, non-numeric or NaN.                                          *)
(*                                                                         *)
(* Labels are sequences of one-character strings, so that trim() and       *)
(* toLowerCase() are computed and not assumed.                             *)
(***************************************************************************)
EXTENDS Integers, Sequences, FiniteSets, TLC

VARIABLES
    kpc,        \* the stake calculator: "call" before it returns, "ret" after
    kin,        \* the arguments of computeKellyPercentage
    kout,       \* its return value, in units of 1/KellyUnit percent
    feed,       \* the market feed: per market, its labels, prices and closed flag
    history,    \* the prediction_history document of the current date
    scored,     \* what getResolvedPredictions returns, in the state after its call
    mpc,        \* the matcher on one record: "call" before it is scored, "ret" after
    min,        \* a stored record, its mirrored record and a settlement
    mout,       \* the record as each code path scores it
    rpc,        \* the return of one scored bet: "call" before, "ret" after
    rin,        \* the stored stake, the stored market price, the side and the verdict
    rout,       \* the realized return, a rational
    bpc,        \* calculateBacktestStats: "call" before it returns, "ret" after
    bin,        \* the list of resolved predictions it is given
    bout,       \* the summary it returns
    now,        \* the server's Date.now(), in ticks of 30 seconds
    rateBuckets,    \* per ip, the timestamps hitRateLimit keeps
    verdicts,       \* every call of hitRateLimit so far: ip, time, rejected or not
    analysisCache,  \* per cache key, the cached payload and its expiry
    pending,        \* /api/analyze requests awaiting the upstream model
    invocations,    \* every upstream invocation so far: cache key and start time
    reply,          \* the last response /api/analyze sent
    apc,        \* one run of the batch analysis: "call" before, "ret" after
    ain,        \* the prepared markets, each with what its analysis gives
    aout,       \* what the cloud functions' loop and the client's loop return
    flight,     \* a batch analysis in progress: its loop and its calls in flight
    tasks       \* the writers of the date's document in progress, with what each read

kvars == <<kpc, kin, kout>>

pvars == <<feed, history, scored>>

mvars == <<mpc, min, mout>>

rvars == <<rpc, rin, rout>>

bvars == <<bpc, bin, bout>>

lvars == <<rateBuckets, verdicts>>

cvars == <<analysisCache, pending, invocations, reply>>

avars == <<apc, ain, aout>>

fvars == <<flight>>

tvars == <<tasks>>

svars == <<now, rateBuckets, verdicts, analysisCache, pending, invocations, reply>>

vars ==
    <<kpc, kin, kout, feed, history, scored, mpc, min, mout, rpc, rin, rout,
      bpc, bin, bout, now, rateBuckets, verdicts, analysisCache, pending,
      invocations, reply, apc, ain, aout, flight, tasks>>

----------------------------------------------------------------------------
(* Numbers *)

One == 100

KellyUnit == 100

NaN == [fin |-> FALSE, v |-> 0]

Num(n) == [fin |-> TRUE, v |-> n]

Min(a, b) == IF a < b THEN a ELSE b

Max(a, b) == IF a > b THEN a ELSE b

Abs(a) == IF a < 0 THEN -a ELSE a

\* Math.round of the rational n/d (d > 0): the nearest integer, halves upwards.
Round(n, d) == (2 * n + d) \div (2 * d)

----------------------------------------------------------------------------
(* Labels *)

LYes == <<"Y", "e", "s">>

LNo == <<"N", "o">>

LyesPadded == <<" ", "y", "e", "s", " ">>

LnoPadded == <<"n", "o", " ">>

LOther == <<"O", "t", "h", "e", "r">>

LCandX == <<"C", "X">>

LCandY == <<"C", "Y">>

LMaybe == <<"M", "a", "y", "b", "e">>

LotherPadded == <<" ", "o", "t", "h", "e", "r">>

LcandxUpper == <<"C", "x", " ">>

LEmpty == << >>

\* The value undefined, where the code reads a label that is not there.
Undefined == <<"<undefined>">>

\* A value that || replaces: undefined or the empty string.
Falsy(l) == l = Undefined \/ l = LEmpty

Whitespace == {" ", "\t", "\n"}

LowerOf ==
    [c \in {"A", "B", "C", "D", "E", "F", "G", "H", "I", "J", "K", "L", "M",
            "N", "O", "P", "Q", "R", "S", "T", "U", "V", "W", "X", "Y", "Z"} |->
        CASE c = "A" -> "a" [] c = "B" -> "b" [] c = "C" -> "c" [] c = "D" -> "d"
          [] c = "E" -> "e" [] c = "F" -> "f" [] c = "G" -> "g" [] c = "H" -> "h"
          [] c = "I" -> "i" [] c = "J" -> "j" [] c = "K" -> "k" [] c = "L" -> "l"
          [] c = "M" -> "m" [] c = "N" -> "n" [] c = "O" -> "o" [] c = "P" -> "p"
          [] c = "Q" -> "q" [] c = "R" -> "r" [] c = "S" -> "s" [] c = "T" -> "t"
          [] c = "U" -> "u" [] c = "V" -> "v" [] c = "W" -> "w" [] c = "X" -> "x"
          [] c = "Y" -> "y" [] c = "Z" -> "z"]

toLowerCase(l) ==
    [i \in 1..Len(l) |-> IF l[i] \in DOMAIN LowerOf THEN LowerOf[l[i]] ELSE l[i]]

RECURSIVE trimStart(_)
trimStart(l) ==
    IF l # << >> /\ Head(l) \in Whitespace THEN trimStart(Tail(l)) ELSE l

RECURSIVE trimEnd(_)
trimEnd(l) ==
    IF l # << >> /\ l[Len(l)] \in Whitespace
    THEN trimEnd(SubSeq(l, 1, Len(l) - 1)) ELSE l

trim(l) == trimEnd(trimStart(l))

\* Normalisation without trim().
normNoTrim(l) == toLowerCase(l)

\* const norm = (s) => s.trim().toLowerCase()
norm(l) == toLowerCase(trim(l))

\* x?.trim().toLowerCase(): undefined stays undefined.
normOpt(l) == IF l = Undefined THEN Undefined ELSE norm(l)

----------------------------------------------------------------------------
(* The stake calculator of the /api/analyze server *)

\* clamp01 with a non-finite value taken as 0 instead of 0.5.
clamp01NaNZero(x) ==
    IF ~x.fin THEN 0 ELSE Min(One, Max(0, x.v))

clamp01(x) ==
    IF ~x.fin THEN One \div 2 ELSE Min(One, Max(0, x.v))

ConfidenceFloor == 4

ExtremeLow == 5

ExtremeHigh == 95

MinEdge == 2

\* The normalisation with only the model's probability inverted for the
\* second outcome.
KellySideMarketAsIs(aiProbabilityForOutcomeA, prediction, outcomes, marketProbOutcomeA) ==
    LET outcomeA == IF Len(outcomes) >= 1 THEN outcomes[1] ELSE Undefined
        outcomeB == IF Len(outcomes) >= 2 /\ outcomes[2] # LEmpty
                    THEN outcomes[2] ELSE LOther
        aiA == clamp01(aiProbabilityForOutcomeA)
        mpA == clamp01(marketProbOutcomeA)
        pred == IF prediction = outcomeA \/ prediction = outcomeB
                THEN prediction
                ELSE IF aiA >= One \div 2 THEN outcomeA ELSE outcomeB
    IN  [pred |-> pred,
         predictedProb |-> IF pred = outcomeA THEN aiA ELSE One - aiA,
         marketSideProb |-> mpA]

\* The normalisation with a label that matches no outcome taken as outcomeA.
KellySideFallbackFirst(aiProbabilityForOutcomeA, prediction, outcomes, marketProbOutcomeA) ==
    LET outcomeA == IF Len(outcomes) >= 1 THEN outcomes[1] ELSE Undefined
        outcomeB == IF Len(outcomes) >= 2 /\ outcomes[2] # LEmpty
                    THEN outcomes[2] ELSE LOther
        aiA == clamp01(aiProbabilityForOutcomeA)
        mpA == clamp01(marketProbOutcomeA)
        pred == IF prediction = outcomeB THEN prediction ELSE outcomeA
    IN  [pred |-> pred,
         predictedProb |-> IF pred = outcomeA THEN aiA ELSE One - aiA,
         marketSideProb |-> IF pred = outcomeA THEN mpA ELSE One - mpA]

\* predictedProb and marketSideProb, as seen from the side the stake is for.
KellySide(aiProbabilityForOutcomeA, prediction, outcomes, marketProbOutcomeA) ==
    LET outcomeA == IF Len(outcomes) >= 1 THEN outcomes[1] ELSE Undefined
        outcomeB == IF Len(outcomes) >= 2 /\ outcomes[2] # LEmpty
                    THEN outcomes[2] ELSE LOther
        aiA == clamp01(aiProbabilityForOutcomeA)
        mpA == clamp01(marketProbOutcomeA)
        pred == IF prediction = outcomeA \/ prediction = outcomeB
                THEN prediction
                ELSE IF aiA >= One \div 2 THEN outcomeA ELSE outcomeB
    IN  [pred |-> pred,
         predictedProb |-> IF pred = outcomeA THEN aiA ELSE One - aiA,
         marketSideProb |-> IF pred = outcomeA THEN mpA ELSE One - mpA]

\* The Kelly formula without the clamp of f to [0, 1].
KellyFormulaUnclamped(predictedProb, marketSideProb) ==
    IF marketSideProb = 0 THEN 0
    ELSE
    LET bn == One - marketSideProb
        bd == marketSideProb
    IN  IF bn <= 0 THEN 0
        ELSE Round(One * KellyUnit
                     * (bn * predictedProb - (One - predictedProb) * bd),
                   One * bn)

\* The Kelly formula staking the size of a negative f as well.
KellyFormulaBothWays(predictedProb, marketSideProb) ==
    IF marketSideProb = 0 THEN 0
    ELSE
    LET bn == One - marketSideProb
        bd == marketSideProb
    IN  IF bn <= 0 THEN 0
        ELSE LET fnum == bn * predictedProb - (One - predictedProb) * bd
                 fden == One * bn
                 num == Min(fden, Abs(fnum))
             IN  Round(One * KellyUnit * num, fden)

\* Lines 442-452: f = (b*p - q)/b with b = 1/price - 1, clamped to [0, 1] and
\* rounded to two decimals of a percentage.  b = bn/bd.
KellyFormula(predictedProb, marketSideProb) ==
    IF marketSideProb = 0 THEN 0            \* b is Infinity: not finite
    ELSE
    LET bn == One - marketSideProb
        bd == marketSideProb
    IN  IF bn <= 0 THEN 0
        ELSE LET fnum == bn * predictedProb - (One - predictedProb) * bd
                 fden == One * bn
                 num == Max(0, Min(fden, fnum))
             IN  Round(One * KellyUnit * num, fden)

\* The calculator with the extreme-price band taken as open (< and > for <= and >=).
computeKellyOpenBand(aiProbabilityForOutcomeA, prediction, outcomes, marketProbOutcomeA, confidence) ==
    LET s == KellySide(aiProbabilityForOutcomeA, prediction, outcomes,
                       marketProbOutcomeA)
    IN  IF confidence.fin /\ confidence.v < ConfidenceFloor THEN 0
        ELSE IF s.marketSideProb < ExtremeLow \/ s.marketSideProb > ExtremeHigh
        THEN 0
        ELSE IF Abs(s.predictedProb - s.marketSideProb) < MinEdge THEN 0
        ELSE KellyFormula(s.predictedProb, s.marketSideProb)

computeKellyPercentage(aiProbabilityForOutcomeA, prediction, outcomes, marketProbOutcomeA, confidence) ==
    LET s == KellySide(aiProbabilityForOutcomeA, prediction, outcomes,
                       marketProbOutcomeA)
    IN  IF confidence.fin /\ confidence.v < ConfidenceFloor THEN 0
        ELSE IF s.marketSideProb <= ExtremeLow \/ s.marketSideProb >= ExtremeHigh
        THEN 0
        ELSE IF Abs(s.predictedProb - s.marketSideProb) < MinEdge THEN 0
        ELSE KellyFormula(s.predictedProb, s.marketSideProb)

----------------------------------------------------------------------------
(* Rationals <<n, d>> with d > 0, for the quotients the code keeps as floats *)

RatLess(a, b) == a[1] * b[2] < b[1] * a[2]

RatEq(a, b) == a[1] * b[2] = b[1] * a[2]

RatMax(a, b) == IF RatLess(a, b) THEN b ELSE a

----------------------------------------------------------------------------
(* Recording a prediction: cloud functions and client *)

\* Gamma API answers only closed=false markets to the refresh; the loop then
\* skips a first price at or outside 0.01 and 0.99.
Prepared(f) == ~f.closed /\ ~(f.price0 <= 1 \/ f.price0 >= One - 1)

\* fetchAndAnalyzeMarkets: the outcome pair a market is analysed and stored with.
PreparedOutcomes(f) ==
    IF ~Falsy(f.groupItemTitle) THEN <<f.groupItemTitle, LOther>>
    ELSE IF Len(f.outcomes) >= 2 THEN f.outcomes
    ELSE <<LYes, LNo>>

\* fetchAndAnalyzeFreshMarkets: the client's preparation of the same pair.
ClientOutcomes(f) ==
    LET outcomes == IF Len(f.outcomes) >= 2 THEN f.outcomes ELSE <<LYes, LNo>>
    IN  IF ~Falsy(f.groupItemTitle) /\ outcomes[1] = LYes
        THEN <<f.groupItemTitle, LOther>>
        ELSE outcomes

\* The resolution statistics of a document that no resolution has written.
NoStats == [resolvedCount |-> 0, brierSum |-> 0]

\* The new history record of one analysed market (outcome: 'pending').
PendingRecord(m) ==
    [marketId |-> m.id, aiPrediction |-> m.prediction, aiProb |-> m.aiProb,
     marketProb |-> m.marketProb, kellyPercentage |-> m.kellyPercentage,
     outcomes |-> m.outcomes, outcome |-> "pending",
     resolvedOutcome |-> Undefined, betProb |-> 0, roi |-> <<0, 1>>]

\* markets.map(m => ({...})) over a list of analysed markets.
PendingRecords(markets) == [i \in 1..Len(markets) |-> PendingRecord(markets[i])]

\* saveToFirestore and savePredictionsToHistory: set() without merge replaces
\* the date's document.
SavedDocument(markets) ==
    [exists |-> TRUE, predictions |-> PendingRecords(markets), stats |-> NoStats]

\* Every market of the refresh taken as new.
SelectAll(markets, existingIds) == markets

RECURSIVE SelectNew(_, _)
SelectNew(markets, existingIds) ==
    IF markets = << >> THEN << >>
    ELSE IF Head(markets).id \in existingIds
         THEN SelectNew(Tail(markets), existingIds)
         ELSE <<Head(markets)>> \o SelectNew(Tail(markets), existingIds)

\* saveToHourlyFirestore, the merge into history: markets whose id the
\* document does not hold yet are appended; nothing is written when none is new.
MergedDocument(doc, markets) ==
    LET existingPredictions == IF doc.exists THEN doc.predictions ELSE << >>
        existingIds == {existingPredictions[i].marketId :
                            i \in 1..Len(existingPredictions)}
        newMarkets == SelectNew(markets, existingIds)
    IN  IF Len(newMarkets) > 0
        THEN [exists |-> TRUE,
              predictions |-> existingPredictions \o PendingRecords(newMarkets),
              stats |-> doc.stats]
        ELSE doc

----------------------------------------------------------------------------
(* resolvePendingMarkets: the cloud functions' resolution of one pending item *)

WinnerThreshold == 99

\* prices.findIndex(p => parseFloat(p) > limit), 0 when there is none.
WinnerIndex(f, limit) ==
    IF f.price0 > limit THEN 1
    ELSE IF One - f.price0 > limit THEN 2
    ELSE 0

LabelAt(outcomes, i) == IF i \in 1..Len(outcomes) THEN outcomes[i] ELSE Undefined

\* Lines 1185-1218, for an item whose market is closed and has a winner.
ResolvedItem(item, f) ==
    LET outcomes == f.outcomes
        winningOutcome == LabelAt(outcomes, WinnerIndex(f, WinnerThreshold))
        cleanPrediction == normOpt(item.aiPrediction)
        cleanWinner == normOpt(winningOutcome)
        isWin == cleanPrediction = cleanWinner
        betProb == IF Len(outcomes) >= 2
                      /\ cleanPrediction # normOpt(LabelAt(outcomes, 1))
                   THEN One - item.marketProb
                   ELSE item.marketProb
        entryProb == Max(1, betProb)
    IN  [item EXCEPT !.outcome = IF isWin THEN "win" ELSE "loss",
                     !.resolvedOutcome = winningOutcome,
                     !.betProb = betProb,
                     !.roi = IF isWin THEN <<One - entryProb, entryProb>>
                             ELSE <<-1, 1>>]

\* An item that a closed market with no price above the threshold resolves as lost.
ItemAfterCheckNoWinnerLoses(item, f, fetched) ==
    IF item.outcome # "pending" \/ ~fetched \/ ~f.closed THEN item
    ELSE IF WinnerIndex(f, WinnerThreshold) = 0
         THEN [item EXCEPT !.outcome = "loss"]
         ELSE ResolvedItem(item, f)

\* Lines 1137-1228 for one item: only a pending item is checked; a failed
\* fetch, an open market or a market with no winning price leaves it pending.
ItemAfterCheck(item, f, fetched) ==
    IF item.outcome # "pending" \/ ~fetched \/ ~f.closed THEN item
    ELSE IF WinnerIndex(f, WinnerThreshold) = 0 THEN item
    ELSE ResolvedItem(item, f)

\* Lines 1243-1246: the sum of (aiProb - outcomeVal)^2 over resolved items.
RECURSIVE BrierSum(_)
BrierSum(resolvedPreds) ==
    IF resolvedPreds = << >> THEN 0
    ELSE LET p == Head(resolvedPreds)
             outcomeVal == IF p.outcome = "win" THEN One ELSE 0
         IN  (p.aiProb - outcomeVal) * (p.aiProb - outcomeVal)
                 + BrierSum(Tail(resolvedPreds))

\* Lines 1229-1258: the statistics written with the resolved predictions;
\* stats.brierScore is brierSum / resolvedCount.
ResolutionStats(predictions) ==
    LET resolvedPreds == SelectSeq(predictions, LAMBDA p : p.outcome # "pending")
    IN  [resolvedCount |-> Len(resolvedPreds), brierSum |-> BrierSum(resolvedPreds)]

----------------------------------------------------------------------------
(* getResolvedMarkets and getResolvedPredictions: the history service *)

ClientWinnerThreshold == 95

SafeEntryLow == 1

SafeEntryHigh == 99

\* getResolvedMarkets: the winner of a listed closed market, undefined when
\* the market is not in the answer or no price is above 0.95.
FeedWinner(f, listed) ==
    IF ~f.closed \/ ~listed \/ Len(f.outcomes) = 0 THEN Undefined
    ELSE LabelAt(f.outcomes, WinnerIndex(f, ClientWinnerThreshold))

FirstTruthy(a, b, c) == IF ~Falsy(a) THEN a ELSE IF ~Falsy(b) THEN b ELSE c

\* Lines 231-243 deciding by the place of the predicted label alone.
IsCorrectByPosition(predictedOutcome, outcomes, resolvedOutcomeRaw) ==
    IF norm(predictedOutcome) = norm(outcomes[1])
    THEN norm(resolvedOutcomeRaw) = norm(outcomes[1])
    ELSE norm(resolvedOutcomeRaw) # norm(outcomes[1])

\* Lines 231-243: actualProb = 1.
IsCorrect(predictedOutcome, outcomes, resolvedOutcomeRaw) ==
    LET resolvedOutcomeNorm == norm(resolvedOutcomeRaw)
        outcomeFirstNorm == norm(outcomes[1])
        predictedOutcomeNorm == norm(predictedOutcome)
    IN  IF predictedOutcomeNorm = toLowerCase(LOther)
        THEN resolvedOutcomeNorm # outcomeFirstNorm
        ELSE resolvedOutcomeNorm = predictedOutcomeNorm

\* Lines 247-266 with a win paying the stake times (1 - price), not the odds.
KellyReturnOnStake(wasCorrect, kellyPct, safeEntryPrice) ==
    LET kellyReturn == IF wasCorrect
                       THEN <<kellyPct * (One - safeEntryPrice),
                              One * KellyUnit * One>>
                       ELSE <<0 - kellyPct, One * KellyUnit>>
    IN  RatMax(<<0 - 99, 100>>, kellyReturn)

\* Lines 247-266 without the floor of line 266.
KellyReturnNoFloor(wasCorrect, kellyPct, safeEntryPrice) ==
    IF wasCorrect
    THEN <<kellyPct * (One - safeEntryPrice), One * KellyUnit * safeEntryPrice>>
    ELSE <<0 - kellyPct, One * KellyUnit>>

\* Lines 247-266 with a lost stake counted as a gain.
KellyReturnLossAsGain(wasCorrect, kellyPct, safeEntryPrice) ==
    IF wasCorrect
    THEN <<kellyPct * (One - safeEntryPrice), One * KellyUnit * safeEntryPrice>>
    ELSE <<kellyPct, One * KellyUnit>>

\* Lines 247-266: the realized return of the bet, floored at -0.99.
KellyReturn(wasCorrect, kellyPct, safeEntryPrice) ==
    LET kellyReturn == IF wasCorrect
                       THEN <<kellyPct * (One - safeEntryPrice),
                              One * KellyUnit * safeEntryPrice>>
                       ELSE <<0 - kellyPct, One * KellyUnit>>
    IN  RatMax(<<0 - 99, 100>>, kellyReturn)

\* Lines 207-290 for a record whose resolved outcome is known.
ScoredPrediction(p, resolvedOutcomeRaw) ==
    LET outcomes == IF Len(p.outcomes) >= 2 THEN p.outcomes ELSE <<LYes, LNo>>
        predictedOutcome == IF Falsy(p.aiPrediction) THEN outcomes[1]
                            ELSE p.aiPrediction
        isPredFirst == predictedOutcome = outcomes[1]
        kellyPct == Max(0, Min(One * KellyUnit, p.kellyPercentage))
        entryPrice == IF isPredFirst THEN p.marketProb ELSE One - p.marketProb
        safeEntryPrice == Max(SafeEntryLow, Min(SafeEntryHigh, entryPrice))
        predictedProb == IF isPredFirst THEN p.aiProb ELSE One - p.aiProb
        wasCorrect == IsCorrect(predictedOutcome, outcomes, resolvedOutcomeRaw)
        actualProb == IF wasCorrect THEN One ELSE 0
    IN  [marketId |-> p.marketId, prediction |-> predictedOutcome,
         outcomes |-> outcomes, aiProb |-> p.aiProb, marketProb |-> p.marketProb,
         kellyPercentage |-> kellyPct, resolvedOutcome |-> resolvedOutcomeRaw,
         wasCorrect |-> wasCorrect,
         brierError |-> (predictedProb - actualProb) * (predictedProb - actualProb),
         kellyReturn |-> KellyReturn(wasCorrect, kellyPct, safeEntryPrice)]

\* The map and filter of lines 206-291: a record with no resolved outcome,
\* neither from the feed nor stored, gives no scored prediction.
RECURSIVE ScoredPredictions(_, _, _)
ScoredPredictions(predictions, fd, listed) ==
    IF predictions = << >> THEN << >>
    ELSE LET p == Head(predictions)
             resolvedOutcomeRaw ==
                 FirstTruthy(FeedWinner(fd[p.marketId], p.marketId \in listed),
                             p.resolvedOutcome, LEmpty)
             rest == ScoredPredictions(Tail(predictions), fd, listed)
         IN  IF Falsy(resolvedOutcomeRaw) THEN rest
             ELSE <<ScoredPrediction(p, resolvedOutcomeRaw)>> \o rest

----------------------------------------------------------------------------
(* The calls of the stake calculator that are checked *)

Over == 1

\* Model probabilities: the whole grid, one value below 0 and one above 1, NaN.
AiInputs == {NaN} \cup {Num(n) : n \in (0 - Over)..(One + Over)}

\* Market prices: the guardrail boundaries, their neighbours, and mid prices.
MarketInputs ==
    {NaN} \cup {Num(n) : n \in {0 - Over, 0, 1, 4, 5, 6, 30, 49, 50, 52, 70,
                                 90, 94, 95, 96, 99, One, One + Over}}

ConfidenceInputs == {NaN} \cup {Num(n) : n \in {0, 3, 4, 8}}

OutcomeInputs == {<<LYes, LNo>>, <<LCandX>>, << >>}

PredictionInputs == {LYes, LNo, LOther, LMaybe}

\* The part of the state a specification does not use keeps these values.
IdleKelly ==
    /\ kpc = "idle"
    /\ kin = [ai |-> NaN, prediction |-> Undefined, outcomes |-> << >>,
              market |-> NaN, confidence |-> NaN]
    /\ kout = 0

IdlePipeline ==
    /\ feed = << >>
    /\ history = [exists |-> FALSE, predictions |-> << >>, stats |-> NoStats]
    /\ scored = << >>

IdleMatch ==
    /\ mpc = "idle"
    /\ min = << >>
    /\ mout = << >>

IdleReturn ==
    /\ rpc = "idle"
    /\ rin = << >>
    /\ rout = <<0, 1>>

IdleStats ==
    /\ bpc = "idle"
    /\ bin = << >>
    /\ bout = << >>

IdleLimiter ==
    /\ rateBuckets = << >>
    /\ verdicts = << >>

IdleCache ==
    /\ analysisCache = << >>
    /\ pending = {}
    /\ invocations = << >>
    /\ reply = << >>

IdleServer ==
    /\ now = 0
    /\ IdleLimiter
    /\ IdleCache

IdleBatch ==
    /\ apc = "idle"
    /\ ain = << >>
    /\ aout = << >>

IdleFlight == flight = << >>

IdleTasks == tasks = << >>

KellyInit ==
    /\ IdleFlight
    /\ IdleTasks
    /\ kpc = "call"
    /\ kin \in [ai : AiInputs, prediction : PredictionInputs,
                outcomes : OutcomeInputs, market : MarketInputs,
                confidence : ConfidenceInputs]
    /\ kout = 0
    /\ IdlePipeline
    /\ IdleMatch
    /\ IdleReturn
    /\ IdleStats
    /\ IdleServer
    /\ IdleBatch

ComputeKelly ==
    /\ kpc = "call"
    /\ kpc' = "ret"
    /\ kout' = computeKellyPercentage(kin.ai, kin.prediction, kin.outcomes,
                                      kin.market, kin.confidence)
    /\ UNCHANGED <<fvars, tvars, avars, kin, pvars, mvars, rvars, bvars, svars>>

KellyNext == ComputeKelly

SpecKelly == KellyInit /\ [][KellyNext]_vars

----------------------------------------------------------------------------
(* The pipeline: feed, refreshes, resolution and scoring *)

MaxMarkets == 2

Markets == 1..MaxMarkets

\* Every second market is one option of a grouped (multi-outcome) event: the
\* feed gives it the outcomes Yes/No and the option's name as groupItemTitle.
GroupTitle(m) == IF m % 2 = 0 THEN LCandX ELSE LEmpty

OpenPrices == {70}

\* First-outcome prices of a closed market: settled for the second or the
\* first outcome, undecided, and above 0.95 but not above 0.99.
ClosedPrices == {0, 50, 96, One}

\* What the model answers for a market: its probability of the first outcome,
\* the label it bets on and its confidence.
Answers(outcomes) ==
    {[aiProbability |-> 85, prediction |-> outcomes[1], confidence |-> 8],
     [aiProbability |-> 15, prediction |-> outcomes[2], confidence |-> 8]}

\* In a pick, the analysis of a market that threw.
Failed == [aiProbability |-> 0, prediction |-> Undefined, confidence |-> 0]

\* The Kelly percentage the model itself answers to the cloud functions.
LlmKelly == 2500

\* fetchAndAnalyzeMarkets, lines 774-784: the edge of the predicted side.
calculatedEdge(prediction, outcomes, aiProb, prob) ==
    IF prediction = outcomes[1] THEN aiProb - prob
    ELSE (One - aiProb) - (One - prob)

\* fetchAndAnalyzeMarkets, lines 771-805: the analysed market of an answer.
CloudMarket(m, f, a) ==
    [id |-> m, marketProb |-> f.price0, aiProb |-> a.aiProbability,
     edge |-> calculatedEdge(a.prediction, PreparedOutcomes(f),
                             a.aiProbability, f.price0),
     outcomes |-> PreparedOutcomes(f), prediction |-> a.prediction,
     kellyPercentage |-> LlmKelly]

\* The client's analyzeMarket over the payload of /api/analyze, whose Kelly
\* percentage the server computes.
ClientMarket(m, f, a) ==
    [id |-> m, marketProb |-> f.price0, aiProb |-> a.aiProbability,
     outcomes |-> ClientOutcomes(f), prediction |-> a.prediction,
     kellyPercentage |->
         computeKellyPercentage(Num(a.aiProbability), a.prediction,
             ClientOutcomes(f), Num(f.price0), Num(a.confidence))]

\* The analysed markets of one refresh, in feed order: pick[m] is the answer
\* for market m, or Failed when its analysis threw.
RECURSIVE CloudMarkets(_, _)
CloudMarkets(m, pick) ==
    IF m > MaxMarkets THEN << >>
    ELSE IF Prepared(feed[m]) /\ pick[m] # Failed
         THEN <<CloudMarket(m, feed[m], pick[m])>> \o CloudMarkets(m + 1, pick)
         ELSE CloudMarkets(m + 1, pick)

RECURSIVE ClientMarkets(_, _)
ClientMarkets(m, pick) ==
    IF m > MaxMarkets THEN << >>
    ELSE IF Prepared(feed[m]) /\ pick[m] # Failed
         THEN <<ClientMarket(m, feed[m], pick[m])>> \o ClientMarkets(m + 1, pick)
         ELSE ClientMarkets(m + 1, pick)

\* The answers a market can get in one refresh; a market the refresh does not
\* analyse has none, which its pick shows as Failed.
CloudChoices(m) ==
    IF Prepared(feed[m]) THEN {Failed} \cup Answers(PreparedOutcomes(feed[m]))
    ELSE {Failed}

ClientChoices(m) ==
    IF Prepared(feed[m]) THEN {Failed} \cup Answers(ClientOutcomes(feed[m]))
    ELSE {Failed}

CloudPicks ==
    {pick \in [Markets -> UNION {CloudChoices(m) : m \in Markets}] :
        \A m \in Markets : pick[m] \in CloudChoices(m)}

ClientPicks ==
    {pick \in [Markets -> UNION {ClientChoices(m) : m \in Markets}] :
        \A m \in Markets : pick[m] \in ClientChoices(m)}

\* The markets of the document's pending items, whose events are requested.
PendingIds ==
    {history.predictions[i].marketId :
        i \in {j \in 1..Len(history.predictions) :
                  history.predictions[j].outcome = "pending"}}

\* The markets that the feed can list as closed.
ClosedIds == {m \in Markets : feed[m].closed}

PipelineInit ==
    /\ IdleFlight
    /\ IdleTasks
    /\ IdleKelly
    /\ IdleMatch
    /\ IdleReturn
    /\ IdleStats
    /\ IdleServer
    /\ IdleBatch
    /\ feed \in [Markets -> [outcomes : {<<LYes, LNo>>},
                             groupItemTitle : {LEmpty, LCandX},
                             closed : {FALSE}, price0 : OpenPrices]]
    /\ \A m \in Markets : feed[m].groupItemTitle = GroupTitle(m)
    /\ history = [exists |-> FALSE, predictions |-> << >>, stats |-> NoStats]
    /\ scored = << >>

\* A market closes: trading stops at some first-outcome price.
FeedClose(m) ==
    /\ ~feed[m].closed
    /\ \E p \in ClosedPrices :
           feed' = [feed EXCEPT ![m].closed = TRUE, ![m].price0 = p]
    /\ scored' = << >>
    /\ UNCHANGED <<fvars, tvars, avars, kvars, mvars, rvars, bvars, svars, history>>

\* A closed market with no settled price yet is settled.
FeedSettle(m) ==
    /\ feed[m].closed
    /\ feed[m].price0 \notin {0, One}
    /\ \E p \in {0, One} : feed' = [feed EXCEPT ![m].price0 = p]
    /\ scored' = << >>
    /\ UNCHANGED <<fvars, tvars, avars, kvars, mvars, rvars, bvars, svars, history>>

\* The feed corrects a settlement: the other outcome becomes the winner.
FeedCorrect(m) ==
    /\ feed[m].closed
    /\ feed[m].price0 \in {0, One}
    /\ feed' = [feed EXCEPT ![m].price0 = One - feed[m].price0]
    /\ scored' = << >>
    /\ UNCHANGED <<fvars, tvars, avars, kvars, mvars, rvars, bvars, svars, history>>

\* dailyRefresh, and manualRefresh with type daily.
DailyRefresh ==
    /\ \E pick \in CloudPicks :
          LET markets == CloudMarkets(1, pick)
          IN  /\ Len(markets) > 0
              /\ history' = SavedDocument(markets)
    /\ scored' = << >>
    /\ UNCHANGED <<fvars, tvars, avars, kvars, mvars, rvars, bvars, svars, feed>>

\* hourlyRefresh, and manualRefresh with type hourly.
HourlyRefresh ==
    /\ \E pick \in CloudPicks :
          LET markets == CloudMarkets(1, pick)
          IN  /\ Len(markets) > 0
              /\ history' = MergedDocument(history, markets)
    /\ scored' = << >>
    /\ UNCHANGED <<fvars, tvars, avars, kvars, mvars, rvars, bvars, svars, feed>>

\* The client's loadData with no daily cache: fresh analysis through
\* /api/analyze, then savePredictionsToHistory.
ClientLoad ==
    /\ \E pick \in ClientPicks :
          LET markets == ClientMarkets(1, pick)
          IN  /\ Len(markets) > 0
              /\ history' = SavedDocument(markets)
    /\ scored' = << >>
    /\ UNCHANGED <<fvars, tvars, avars, kvars, mvars, rvars, bvars, svars, feed>>

\* resolvePendingMarkets over the date's document; fetched holds the markets
\* whose event request answered.
ResolvePending ==
    /\ history.exists
    /\ \E i \in 1..Len(history.predictions) :
           history.predictions[i].outcome = "pending"
    /\ \E fetched \in SUBSET PendingIds :
          LET predictions ==
                  [i \in 1..Len(history.predictions) |->
                      ItemAfterCheck(history.predictions[i],
                                     feed[history.predictions[i].marketId],
                                     history.predictions[i].marketId \in fetched)]
              hasUpdates == predictions # history.predictions
          IN  history' = [history EXCEPT
                              !.predictions = predictions,
                              !.stats = IF hasUpdates
                                        THEN ResolutionStats(predictions)
                                        ELSE history.stats]
    /\ scored' = << >>
    /\ UNCHANGED <<fvars, tvars, avars, kvars, mvars, rvars, bvars, svars, feed>>

\* getResolvedPredictions; listed holds the markets getResolvedMarkets answers.
GetResolvedPredictions ==
    /\ history.exists
    /\ Len(history.predictions) > 0
    /\ \E listed \in SUBSET ClosedIds :
          scored' = ScoredPredictions(history.predictions, feed, listed)
    /\ UNCHANGED <<fvars, tvars, avars, kvars, mvars, rvars, bvars, svars, feed, history>>

Next ==
    \/ \E m \in Markets : FeedClose(m)
    \/ \E m \in Markets : FeedSettle(m)
    \/ \E m \in Markets : FeedCorrect(m)
    \/ DailyRefresh
    \/ HourlyRefresh
    \/ ClientLoad
    \/ ResolvePending
    \/ GetResolvedPredictions

Spec == PipelineInit /\ [][Next]_vars

----------------------------------------------------------------------------
(* The matcher on one stored record and one settlement, by both code paths *)

MatchLabels ==
    {LYes, LyesPadded, LNo, LnoPadded, LOther, LotherPadded, LCandX,
     LcandxUpper, LCandY}

RecordedOutcomes == {<<LYes, LNo>>, <<LCandX, LOther>>}

\* The same bet written with the outcome pair in the other order: the label
\* bet on is kept, the probabilities of the first outcome are inverted.
Mirrored(p) ==
    [p EXCEPT !.outcomes = <<p.outcomes[2], p.outcomes[1]>>,
              !.aiProb = One - p.aiProb,
              !.marketProb = One - p.marketProb]

MatchRecord(outcomes, label, aiProb) ==
    PendingRecord([id |-> 1, prediction |-> label, aiProb |-> aiProb,
                   marketProb |-> 70, outcomes |-> outcomes,
                   kellyPercentage |-> LlmKelly])

\* The closed event whose winning outcome has the given label, at the given
\* place of its outcomes.
SettledEvent(winner, place) ==
    [outcomes |-> IF place = 1 THEN <<winner, LMaybe>> ELSE <<LMaybe, winner>>,
     groupItemTitle |-> LEmpty, closed |-> TRUE,
     price0 |-> IF place = 1 THEN One ELSE 0]

MatchInit ==
    /\ IdleFlight
    /\ IdleTasks
    /\ IdleKelly
    /\ IdlePipeline
    /\ IdleReturn
    /\ IdleStats
    /\ IdleServer
    /\ IdleBatch
    /\ mpc = "call"
    /\ \E outcomes \in RecordedOutcomes, label \in MatchLabels,
          aiProb \in {15, 85}, winner \in MatchLabels, place \in {1, 2} :
          min = [record |-> MatchRecord(outcomes, label, aiProb),
                 winner |-> winner, place |-> place]
    /\ mout = << >>

\* The record scored by getResolvedPredictions, its mirrored record scored by
\* getResolvedPredictions, the record resolved by resolvePendingMarkets, and
\* the side for which /api/analyze sizes the stake of the record's analysis.
Match ==
    /\ mpc = "call"
    /\ mpc' = "ret"
    /\ mout' = [sized |-> KellySide(Num(min.record.aiProb), min.record.aiPrediction,
                                   min.record.outcomes, Num(min.record.marketProb)),
                client |-> ScoredPrediction(min.record, min.winner),
                mirrored |-> ScoredPrediction(Mirrored(min.record), min.winner),
                cloud |-> ItemAfterCheck(min.record,
                              SettledEvent(min.winner, min.place), TRUE)]
    /\ UNCHANGED <<fvars, tvars, avars, min, kvars, pvars, rvars, bvars, svars>>

MatchNext == Match

SpecMatch == MatchInit /\ [][MatchNext]_vars

----------------------------------------------------------------------------
(* The realized return of one bet, from the stored numbers as they come *)

\* Lines 215-219: a stored percentage that is not a finite number counts as 0,
\* any other is taken into [0, 100].
KellyPctOf(kellyPercentage) ==
    IF kellyPercentage.fin
    THEN Max(0, Min(One * KellyUnit, kellyPercentage.v))
    ELSE 0

\* Lines 222-226: the price paid for the predicted side, taken into
\* [0.01, 0.99]; Math.min and Math.max of NaN are NaN.
SafeEntryPriceOf(marketProb, isPredFirst) ==
    IF marketProb.fin
    THEN Num(Max(SafeEntryLow,
                 Min(SafeEntryHigh,
                     IF isPredFirst THEN marketProb.v ELSE One - marketProb.v)))
    ELSE NaN

\* Lines 215-266: a return that is not finite is 0.
RealizedReturn(wasCorrect, kellyPercentage, marketProb, isPredFirst) ==
    LET kellyPct == KellyPctOf(kellyPercentage)
        safeEntryPrice == SafeEntryPriceOf(marketProb, isPredFirst)
    IN  IF wasCorrect /\ ~safeEntryPrice.fin THEN <<0, 1>>
        ELSE KellyReturn(wasCorrect, kellyPct, safeEntryPrice.v)

\* Stored percentages: every whole percent from -1 to 101, and values with
\* decimals around the floor of the return.
StakeInputs ==
    {NaN} \cup {Num(n * KellyUnit) : n \in (0 - Over)..(One + Over)}
          \cup {Num(n) : n \in {1, 9901, 9950, 9999}}

\* Stored first-outcome prices, inside and outside [0, 1].
EntryInputs ==
    {NaN} \cup {Num(n) : n \in {0 - 5, 0, 1, 30, 50, 70, 99, One, One + 5}}

ReturnInit ==
    /\ IdleFlight
    /\ IdleTasks
    /\ IdleKelly
    /\ IdlePipeline
    /\ IdleMatch
    /\ IdleStats
    /\ IdleServer
    /\ IdleBatch
    /\ rpc = "call"
    /\ rin \in [wasCorrect : BOOLEAN, kellyPercentage : StakeInputs,
                marketProb : EntryInputs, isPredFirst : BOOLEAN]
    /\ rout = <<0, 1>>

ComputeReturn ==
    /\ rpc = "call"
    /\ rpc' = "ret"
    /\ rout' = RealizedReturn(rin.wasCorrect, rin.kellyPercentage,
                              rin.marketProb, rin.isPredFirst)
    /\ UNCHANGED <<fvars, tvars, avars, rin, kvars, pvars, mvars, bvars, svars>>

ReturnNext == ComputeReturn

SpecReturn == ReturnInit /\ [][ReturnNext]_vars

----------------------------------------------------------------------------
(* calculateBacktestStats: the summary of a list of resolved predictions *)

\* A resolved prediction here has a date (a day number), wasCorrect,
\* brierError in units of 1/One^2 and kellyReturn in units of 1/One.  The
\* summary's ratios are rationals; kellyROI has the denominator One^total.

RECURSIVE Pow(_, _)
Pow(x, n) == IF n = 0 THEN 1 ELSE x * Pow(x, n - 1)

\* Line 338 without the floor.
safeReturnNoFloor(kellyReturn) == kellyReturn

\* Line 338: Math.max(-0.99, p.kellyReturn).
safeReturn(kellyReturn) == Max(0 - 99, kellyReturn)

\* Array.prototype.sort with the comparator of line 332 is stable: p goes
\* behind every element whose date is not later.
RECURSIVE InsertByDate(_, _)
InsertByDate(p, sorted) ==
    IF sorted = << >> THEN <<p>>
    ELSE IF Head(sorted).date <= p.date
         THEN <<Head(sorted)>> \o InsertByDate(p, Tail(sorted))
         ELSE <<p>> \o sorted

RECURSIVE SortByDate(_)
SortByDate(resolved) ==
    IF resolved = << >> THEN << >>
    ELSE InsertByDate(resolved[Len(resolved)],
                      SortByDate(SubSeq(resolved, 1, Len(resolved) - 1)))

\* Lines 334-340: the fold over the sorted list; the multiplier after k steps
\* is in units of 1/One^k.
RECURSIVE Compound(_, _)
Compound(bankrollMultiplier, sortedResolved) ==
    IF sortedResolved = << >> THEN bankrollMultiplier
    ELSE Compound(bankrollMultiplier * (One + safeReturn(Head(sortedResolved).kellyReturn)),
                  Tail(sortedResolved))

RECURSIVE SumOfReturns(_)
SumOfReturns(resolved) ==
    IF resolved = << >> THEN 0
    ELSE Head(resolved).kellyReturn + SumOfReturns(Tail(resolved))

\* The return of the period as the plain sum of the per-bet returns.
kellyROIAdditive(resolved) == <<SumOfReturns(resolved), One>>

\* Lines 328-342: kellyROI = bankrollMultiplier - 1.
kellyROI(resolved) ==
    LET sortedResolved == SortByDate(resolved)
        bankrollMultiplier == Compound(1, sortedResolved)
    IN  <<bankrollMultiplier - Pow(One, Len(resolved)), Pow(One, Len(resolved))>>

RECURSIVE SumOfBrier(_)
SumOfBrier(resolved) ==
    IF resolved = << >> THEN 0
    ELSE Head(resolved).brierError + SumOfBrier(Tail(resolved))

LastDay == 3

Days == 1..LastDay

\* Lines 347-354: the reduce into a Map, whose entries keep the order in
\* which their dates first occur.
RECURSIVE CountByDate(_)
CountByDate(resolved) ==
    IF resolved = << >> THEN << >>
    ELSE LET acc == CountByDate(SubSeq(resolved, 1, Len(resolved) - 1))
             date == resolved[Len(resolved)].date
         IN  IF \E i \in 1..Len(acc) : acc[i].date = date
             THEN [i \in 1..Len(acc) |->
                      IF acc[i].date = date
                      THEN [acc[i] EXCEPT !.count = acc[i].count + 1]
                      ELSE acc[i]]
             ELSE Append(acc, [date |-> date, count |-> 1])

\* Line 355: sort((a, b) => a[0].localeCompare(b[0])), a stable sort.
RECURSIVE SortByDateString(_)
SortByDateString(entries) ==
    IF entries = << >> THEN << >>
    ELSE InsertByDate(entries[Len(entries)],
                      SortByDateString(SubSeq(entries, 1, Len(entries) - 1)))

\* The time series left in the order of the Map.
overTimeUnsorted(resolved) == CountByDate(resolved)

\* The time series with one entry for every prediction.
overTimeUngrouped(resolved) ==
    SortByDateString([i \in 1..Len(resolved) |->
                         [date |-> resolved[i].date, count |-> 1]])

\* Lines 346-355: the count of every date that occurs, in ascending order of
\* the date strings.
overTime(resolved) == SortByDateString(CountByDate(resolved))

\* Lines 322-365.
StatsOf(resolved) ==
    LET total == Len(resolved)
        correct == Cardinality({i \in 1..total : resolved[i].wasCorrect})
        brierScore == SumOfBrier(resolved)
        wins == Cardinality({i \in 1..total : resolved[i].kellyReturn > 0})
    IN  [total |-> total,
         accuracy |-> <<correct * 100, total>>,
         brierScore |-> brierScore,
         avgBrier |-> <<brierScore, total>>,
         kellyROI |-> kellyROI(resolved),
         winRate |-> <<wins * 100, total>>,
         overTime |-> overTime(resolved)]

\* Lines 322-365 for every list, the empty one too.
calculateBacktestStatsNoGuard(resolved) == StatsOf(resolved)

\* Lines 309-366.
calculateBacktestStats(resolved) ==
    IF Len(resolved) = 0
    THEN [total |-> 0, accuracy |-> <<0, 1>>, brierScore |-> 0,
          avgBrier |-> <<0, 1>>, kellyROI |-> <<0, 1>>, winRate |-> <<0, 1>>,
          overTime |-> << >>]
    ELSE StatsOf(resolved)

MaxResolved == 3

\* Resolved predictions: correct ones with no, a small and a large gain,
\* incorrect ones with a loss of half the bankroll, of the floor and of more
\* than the bankroll.
ResolvedInputs ==
    [date : Days, wasCorrect : {TRUE}, brierError : {225},
     kellyReturn : {0, 20, 50}]
    \cup [date : Days, wasCorrect : {FALSE}, brierError : {7225},
          kellyReturn : {0 - 150, 0 - 99, 0 - 50}]

StatsInit ==
    /\ IdleFlight
    /\ IdleTasks
    /\ IdleKelly
    /\ IdlePipeline
    /\ IdleMatch
    /\ IdleReturn
    /\ IdleServer
    /\ IdleBatch
    /\ bpc = "call"
    /\ bin \in UNION {[1..n -> ResolvedInputs] : n \in 0..MaxResolved}
    /\ bout = << >>

CalculateStats ==
    /\ bpc = "call"
    /\ bpc' = "ret"
    /\ bout' = calculateBacktestStats(bin)
    /\ UNCHANGED <<fvars, tvars, avars, bin, kvars, pvars, mvars, rvars, svars>>

StatsNext == CalculateStats

SpecStats == StatsInit /\ [][StatsNext]_vars

----------------------------------------------------------------------------
(* The server's clock and its sliding-window rate limiter *)

\* Time is counted in ticks of 30 seconds.
RATE_LIMIT_WINDOW_MS == 2

\* The limit the callers of the model are held to (the handler passes 25).
RateLimit == 2

MaxTime == 7

MaxHits == 5

Ips == {"ip1", "ip2"}

\* hitRateLimit with >= in place of > in its last line.
hitRateLimitAtLimit(ip, limit) ==
    LET bucket == rateBuckets[ip]
        recent == Append(SelectSeq(bucket, LAMBDA t : now - t < RATE_LIMIT_WINDOW_MS), now)
    IN  [buckets |-> [rateBuckets EXCEPT ![ip] = recent],
         rejected |-> Len(recent) >= limit]

\* hitRateLimit keeping the timestamps of admitted requests only.
hitRateLimitAdmittedOnly(ip, limit) ==
    LET bucket == rateBuckets[ip]
        recent == SelectSeq(bucket, LAMBDA t : now - t < RATE_LIMIT_WINDOW_MS)
        rejected == Len(recent) + 1 > limit
    IN  [buckets |-> [rateBuckets EXCEPT
                         ![ip] = IF rejected THEN recent ELSE Append(recent, now)],
         rejected |-> rejected]

\* hitRateLimit: the new buckets and the value returned.
hitRateLimit(ip, limit) ==
    LET bucket == rateBuckets[ip]
        recent == Append(SelectSeq(bucket, LAMBDA t : now - t < RATE_LIMIT_WINDOW_MS), now)
    IN  [buckets |-> [rateBuckets EXCEPT ![ip] = recent],
         rejected |-> Len(recent) > limit]

LimiterInit ==
    /\ IdleFlight
    /\ IdleTasks
    /\ IdleKelly
    /\ IdlePipeline
    /\ IdleMatch
    /\ IdleReturn
    /\ IdleStats
    /\ IdleBatch
    /\ IdleCache
    /\ now = 0
    /\ rateBuckets = [ip \in Ips |-> << >>]
    /\ verdicts = << >>

\* Date.now() moves on.
Tick ==
    /\ now < MaxTime
    /\ now' = now + 1
    /\ UNCHANGED <<fvars, tvars, avars, kvars, pvars, mvars, rvars, bvars, lvars, cvars>>

\* An unauthenticated request from ip reaches /api/analyze: it is answered 429
\* at once when hitRateLimit returns true, and goes on otherwise.
Hit(ip) ==
    /\ Len(verdicts) < MaxHits
    /\ LET hit == hitRateLimit(ip, RateLimit)
       IN  /\ rateBuckets' = hit.buckets
           /\ verdicts' = Append(verdicts,
                  [ip |-> ip, at |-> now, rejected |-> hit.rejected])
    /\ UNCHANGED <<fvars, tvars, avars, now, kvars, pvars, mvars, rvars, bvars, cvars>>

LimiterNext ==
    \/ Tick
    \/ \E ip \in Ips : Hit(ip)

SpecLimiter == LimiterInit /\ [][LimiterNext]_vars

----------------------------------------------------------------------------
(* The analysis cache of /api/analyze *)

\* 3 minutes, in ticks of 30 seconds.
ANALYSIS_CACHE_TTL_MS == 6

MaxRequests == 3

\* Request bodies that pass the validation of the handler: marketProb in
\* units of 1/100000, volume in units of 1/1000 or absent.
Bodies ==
    [title : {"t"}, outcomes : {<<LYes, LNo>>},
     marketProb : {70000, 70004, 70010}, volume : {NaN, Num(4)}]

\* makeCacheKey: Number(marketProb).toFixed(4) and Number(volume || 0).toFixed(2).
makeCacheKey(body) ==
    <<body.title, body.outcomes, Round(body.marketProb, 10),
      IF body.volume.fin THEN Round(body.volume.v, 10) ELSE 0>>

CacheKeys == {makeCacheKey(body) : body \in Bodies}

NoEntry == [present |-> FALSE, data |-> 0, expiresAt |-> 0]

CacheInit ==
    /\ IdleFlight
    /\ IdleTasks
    /\ IdleKelly
    /\ IdlePipeline
    /\ IdleMatch
    /\ IdleReturn
    /\ IdleStats
    /\ IdleBatch
    /\ IdleLimiter
    /\ now = 0
    /\ analysisCache = [key \in CacheKeys |-> NoEntry]
    /\ pending = {}
    /\ invocations = << >>
    /\ reply = << >>

\* A valid request arrives: a cached entry that has not expired is sent back;
\* otherwise the upstream model is invoked and the handler awaits it.
Arrive(body) ==
    /\ Len(invocations) < MaxRequests
    /\ LET cacheKey == makeCacheKey(body)
           cached == analysisCache[cacheKey]
       IN  IF cached.present /\ cached.expiresAt > now
           THEN /\ reply' = [status |-> 200, key |-> cacheKey,
                             data |-> cached.data, cached |-> TRUE]
                /\ UNCHANGED <<pending, invocations>>
           ELSE /\ invocations' = Append(invocations, [key |-> cacheKey, at |-> now])
                /\ pending' = pending \cup
                       {[id |-> Len(invocations) + 1, key |-> cacheKey]}
                /\ UNCHANGED reply
    /\ UNCHANGED <<fvars, tvars, avars, now, analysisCache, kvars, pvars, mvars, rvars, bvars, lvars>>

\* The upstream answers a pending request with a payload that parses: the
\* payload is cached for the TTL and sent.
UpstreamAnswers(request) ==
    /\ request \in pending
    /\ pending' = pending \ {request}
    /\ analysisCache' = [analysisCache EXCEPT ![request.key] =
           [present |-> TRUE, data |-> request.id,
            expiresAt |-> now + ANALYSIS_CACHE_TTL_MS]]
    /\ reply' = [status |-> 200, key |-> request.key, data |-> request.id,
                 cached |-> FALSE]
    /\ UNCHANGED <<fvars, tvars, avars, now, invocations, kvars, pvars, mvars, rvars, bvars, lvars>>

\* The upstream fails, or its text does not parse: 503 or 500, nothing cached.
UpstreamFails(request) ==
    /\ request \in pending
    /\ pending' = pending \ {request}
    /\ \E status \in {500, 503} :
          reply' = [status |-> status, key |-> request.key, data |-> 0,
                    cached |-> FALSE]
    /\ UNCHANGED <<fvars, tvars, avars, now, analysisCache, invocations, kvars, pvars, mvars, rvars,
                   bvars, lvars>>

CacheNext ==
    \/ Tick
    \/ \E body \in Bodies : Arrive(body)
    \/ \E request \in pending : UpstreamAnswers(request)
    \/ \E request \in pending : UpstreamFails(request)

SpecCache == CacheInit /\ [][CacheNext]_vars

----------------------------------------------------------------------------
(* The batch loops of fetchAndAnalyzeMarkets and fetchAndAnalyzeFreshMarkets *)

\* Markets per batch (10 in the source).
BatchSize == 2

MaxPrepared == 3

\* Promise.all over one batch, then the loop of lines 813-820: a prepared
\* market whose analysis threw counts as an error, any other is pushed.
RECURSIVE BatchResults(_, _)
BatchResults(batch, sofar) ==
    IF batch = << >> THEN sofar
    ELSE LET item == Head(batch)
         IN  BatchResults(Tail(batch),
                 IF item.analysis = Failed
                 THEN [sofar EXCEPT !.errorCount = @ + 1]
                 ELSE [sofar EXCEPT
                          !.analyzedMarkets =
                              Append(@, CloudMarket(item.id, item.f, item.analysis)),
                          !.successCount = @ + 1])

\* A batch with a failed analysis is given up as a whole.
RECURSIVE AnalyzeBatchesAllOrNothing(_, _, _)
AnalyzeBatchesAllOrNothing(i, marketsToAnalyze, sofar) ==
    IF i > Len(marketsToAnalyze) THEN sofar
    ELSE LET batch == SubSeq(marketsToAnalyze, i,
                             Min(i + BatchSize - 1, Len(marketsToAnalyze)))
         IN  AnalyzeBatchesAllOrNothing(i + BatchSize, marketsToAnalyze,
                 IF \E k \in 1..Len(batch) : batch[k].analysis = Failed
                 THEN [sofar EXCEPT !.errorCount = @ + 1]
                 ELSE BatchResults(batch, sofar))

\* Lines 751-832: the batches from the prepared market i on.
RECURSIVE AnalyzeBatches(_, _, _)
AnalyzeBatches(i, marketsToAnalyze, sofar) ==
    IF i > Len(marketsToAnalyze) THEN sofar
    ELSE LET batch == SubSeq(marketsToAnalyze, i,
                             Min(i + BatchSize - 1, Len(marketsToAnalyze)))
         IN  AnalyzeBatches(i + BatchSize, marketsToAnalyze,
                            BatchResults(batch, sofar))

\* The client's Promise.allSettled, map and filter.
RECURSIVE SettledResults(_)
SettledResults(preparedData) ==
    IF preparedData = << >> THEN << >>
    ELSE LET item == Head(preparedData)
         IN  IF item.analysis = Failed THEN SettledResults(Tail(preparedData))
             ELSE <<ClientMarket(item.id, item.f, item.analysis)>>
                      \o SettledResults(Tail(preparedData))

\* A prepared market: an open market of the feed, plain or grouped, with what
\* its analysis will give.
PreparedInputs(id) ==
    UNION {[id : {id}, f : {f}, analysis : {Failed} \cup Answers(PreparedOutcomes(f))] :
              f \in [outcomes : {<<LYes, LNo>>}, groupItemTitle : {LEmpty, LCandX},
                     closed : {FALSE}, price0 : {30, 70}]}

BatchInit ==
    /\ IdleFlight
    /\ IdleTasks
    /\ IdleKelly
    /\ IdlePipeline
    /\ IdleMatch
    /\ IdleReturn
    /\ IdleStats
    /\ IdleServer
    /\ apc = "call"
    /\ \E n \in 0..MaxPrepared :
          ain \in {list \in [1..n -> UNION {PreparedInputs(id) : id \in 1..n}] :
                      \A i \in 1..n : list[i].id = i}
    /\ aout = << >>

AnalyzeAll ==
    /\ apc = "call"
    /\ apc' = "ret"
    /\ aout' = [cloud |-> AnalyzeBatches(1, ain,
                    [analyzedMarkets |-> << >>, successCount |-> 0,
                     errorCount |-> 0]),
                client |-> SettledResults(ain)]
    /\ UNCHANGED <<fvars, tvars, ain, kvars, pvars, mvars, rvars, bvars, svars>>

BatchNext == AnalyzeAll

SpecBatch == BatchInit /\ [][BatchNext]_vars

----------------------------------------------------------------------------
(* Claims about the stake calculator, checked under SpecKelly *)

FullStake == One * KellyUnit

OutOfRange(x) == x.fin /\ (x.v < 0 \/ x.v > One)

\* An input the data model does not allow.
InvalidInput ==
    \/ ~kin.ai.fin \/ OutOfRange(kin.ai)
    \/ ~kin.market.fin \/ OutOfRange(kin.market)
    \/ ~kin.confidence.fin
    \/ Len(kin.outcomes) < 2
    \/ \A i \in 1..Len(kin.outcomes) : kin.prediction # kin.outcomes[i]

\* C1: for every input, computeKellyPercentage returns a value in [0, 100]
\* (percent), so the stake is never short and never leveraged.
C1_StakeBounded ==
    kpc = "ret" => kout \in 0..FullStake

\* A call that returns the largest stake, 100%.
C1_Witness ==
    /\ kpc = "ret"
    /\ ~InvalidInput
    /\ kout = FullStake

\* The side the returned stake was sized for.
KinSide == KellySide(kin.ai, kin.prediction, kin.outcomes, kin.market)

LowConfidence == kin.confidence.fin /\ kin.confidence.v < ConfidenceFloor

ExtremePrice ==
    KinSide.marketSideProb <= ExtremeLow \/ KinSide.marketSideProb >= ExtremeHigh

TinyEdge == Abs(KinSide.predictedProb - KinSide.marketSideProb) < MinEdge

\* C2: the stake is exactly 0 when the confidence is below 4, or the market
\* price of the predicted side is <= 0.05 or >= 0.95, or the absolute edge is
\* below 0.02.
C2_Guardrails ==
    (kpc = "ret" /\ (LowConfidence \/ ExtremePrice \/ TinyEdge)) => kout = 0

\* The edge guardrail alone forces 0 where the Kelly formula gives 10% or more.
C2_Witness ==
    /\ kpc = "ret"
    /\ ~InvalidInput
    /\ TinyEdge /\ ~LowConfidence /\ ~ExtremePrice
    /\ KellyFormula(KinSide.predictedProb, KinSide.marketSideProb) >= 10 * KellyUnit
    /\ kout = 0

CoerceProb(x) ==
    IF ~x.fin THEN Num(50)
    ELSE IF x.v < 0 THEN Num(0)
    ELSE IF x.v > 100 THEN Num(100)
    ELSE x

CoerceConfidence(c) == IF ~c.fin THEN Num(4) ELSE c

----------------------------------------------------------------------------
(* Claims about the pipeline, checked under Spec *)

Stored == {history.predictions[i] : i \in 1..Len(history.predictions)}

Scored == {scored[i] : i \in 1..Len(scored)}

\* The stake of the calculator for a Yes/No market at 0.70 that the model
\* gives 0.85 for Yes with confidence 8.
ScenarioStake ==
    computeKellyPercentage(Num(85), LYes, <<LYes, LNo>>, Num(70), Num(8))

\* A scored prediction of that scenario, staked by the calculator, whose
\* market settled for Yes.
InScenario(s) ==
    /\ s.outcomes = <<LYes, LNo>> /\ s.prediction = LYes
    /\ s.marketProb = 70 /\ s.aiProb = 85
    /\ s.kellyPercentage = ScenarioStake
    /\ s.resolvedOutcome = LYes

\* C4 as stated: in the scenario the stake is about 65% and, once the market
\* settles for Yes, the prediction is scored correct with a return of about
\* 0.279.
C4_AsStated ==
    \A s \in Scored : InScenario(s) =>
        /\ s.kellyPercentage \in (64 * KellyUnit)..(66 * KellyUnit)
        /\ s.wasCorrect
        /\ RatLess(<<274, 1000>>, s.kellyReturn)
        /\ RatLess(s.kellyReturn, <<284, 1000>>)

\* C4 amended: in the scenario the stake is exactly 50% and, once the market
\* settles for Yes, the prediction is scored correct with a return of
\* stake x 0.3/0.7 = 0.5 x 3/7 = 3/14, about 0.214.
C4_FiftyPercent ==
    \A s \in Scored : InScenario(s) =>
        /\ s.kellyPercentage = 50 * KellyUnit
        /\ s.wasCorrect
        /\ RatEq(s.kellyReturn, <<3, 14>>)

\* The scenario was recorded by the client, settled and scored.
C4_Witness ==
    \E s \in Scored : InScenario(s) /\ s.wasCorrect /\ s.marketId = 1

\* C5: a resolved prediction stays in the date's document with the outcome and
\* the winner it was resolved with, whatever runs afterwards.
C5_ResolvedOnce ==
    [][\A p \in Stored : p.outcome # "pending" =>
          \E i \in 1..Len(history'.predictions) :
              /\ history'.predictions[i].marketId = p.marketId
              /\ history'.predictions[i].outcome = p.outcome
              /\ history'.predictions[i].resolvedOutcome = p.resolvedOutcome]_vars

HasWinner(m, limit) == feed[m].closed /\ WinnerIndex(feed[m], limit) # 0

\* C6: a prediction whose market has no winning outcome is pending in the
\* document, neither a win nor a loss, and gives no scored prediction.
C6_UnsettledNotScored ==
    /\ \A p \in Stored : ~HasWinner(p.marketId, WinnerThreshold) =>
           /\ p.outcome = "pending"
           /\ Falsy(p.resolvedOutcome)
    /\ \A p \in Stored : ~HasWinner(p.marketId, ClientWinnerThreshold) =>
           \A s \in Scored : s.marketId # p.marketId

\* Scoring returned one settled prediction and left out a pending one whose
\* market closed with no winning price.
C6_Witness ==
    \E p \in Stored, q \in Stored :
        /\ p.outcome # "pending"
        /\ q.outcome = "pending"
        /\ feed[q.marketId].closed
        /\ ~HasWinner(q.marketId, ClientWinnerThreshold)
        /\ Len(scored) = 1
        /\ scored[1].marketId = p.marketId

IsOther(l) == l \in {LOther, LotherPadded}

\* C8: wherever a prediction is scored, one whose label is "other" is correct
\* exactly when the winner is not the first outcome of its record.
C8_OtherSentinel ==
    /\ \A s \in Scored : IsOther(s.prediction) =>
           (s.wasCorrect <=> norm(s.resolvedOutcome) # norm(s.outcomes[1]))
    /\ \A p \in Stored : (IsOther(p.aiPrediction) /\ p.outcome # "pending") =>
           (p.outcome = "win" <=> norm(p.resolvedOutcome) # norm(p.outcomes[1]))

\* C9: resolution takes the bet to be on the first outcome exactly when the
\* predicted label is the first outcome the record was written with.
C9_RecordedFirstOutcome ==
    \A p \in Stored : p.outcome # "pending" =>
        p.betProb = IF norm(p.aiPrediction) = norm(p.outcomes[1])
                    THEN p.marketProb
                    ELSE One - p.marketProb

----------------------------------------------------------------------------
(* Claims about the matcher, checked under SpecMatch *)

\* The labels of the matcher's inputs, by what they spell.
Spellings ==
    {{LYes, LyesPadded}, {LNo, LnoPadded}, {LOther, LotherPadded},
     {LCandX, LcandxUpper}, {LCandY}, {LMaybe}}

SameSpelling(a, b) == \E S \in Spellings : a \in S /\ b \in S

\* C7: a predicted label other than "other" is correct exactly when it and
\* the winner's label are equal up to case and surrounding whitespace, in the
\* history service and in the cloud functions' resolution alike.
C7_NormalizedMatch ==
    (mpc = "ret" /\ ~IsOther(min.record.aiPrediction)) =>
        /\ mout.client.wasCorrect
               <=> SameSpelling(min.record.aiPrediction, min.winner)
        /\ mout.cloud.outcome # "pending"
        /\ mout.cloud.outcome = "win"
               <=> SameSpelling(min.record.aiPrediction, min.winner)

\* "Yes" against the winner " yes" is a win on both paths.
C7_Witness ==
    /\ mpc = "ret"
    /\ min.record.aiPrediction = LYes
    /\ min.winner = LyesPadded
    /\ mout.client.wasCorrect
    /\ mout.cloud.outcome = "win"

\* C10 as stated: a record and its mirrored record are scored alike.
C10_Symmetric ==
    mpc = "ret" => (mout.client.wasCorrect <=> mout.mirrored.wasCorrect)

\* C10 amended: a record and its mirrored record are scored alike when the
\* predicted label is not "other".
C10_SymmetricNamed ==
    (mpc = "ret" /\ ~IsOther(min.record.aiPrediction)) =>
        (mout.client.wasCorrect <=> mout.mirrored.wasCorrect)

\* A bet on the second outcome of the record, first of the mirrored record,
\* correct in both.
C10_Witness ==
    /\ mpc = "ret"
    /\ min.record.aiPrediction = min.record.outcomes[2]
    /\ ~IsOther(min.record.aiPrediction)
    /\ mout.mirrored.prediction = mout.mirrored.outcomes[1]
    /\ mout.mirrored.aiProb = One - min.record.aiProb
    /\ mout.client.wasCorrect
    /\ mout.mirrored.wasCorrect

----------------------------------------------------------------------------
(* Claims about the realized return, checked under SpecReturn *)

\* The stake fraction of the call, in units of 1/FullStake.
RinStake == KellyPctOf(rin.kellyPercentage)

ReturnFloor == <<0 - 99, 100>>

\* C11 as stated: the return is finite, at least -0.99, and exactly minus the
\* stake fraction whenever the prediction was incorrect.
C11_LossIsStake ==
    rpc = "ret" =>
        /\ rout[2] > 0
        /\ ~RatLess(rout, ReturnFloor)
        /\ ~rin.wasCorrect => RatEq(rout, <<0 - RinStake, FullStake>>)

\* C11 amended: the return is finite and at least -0.99; for an incorrect
\* prediction it is minus the stake fraction when that is at most 0.99, and
\* -0.99 for a larger stake fraction.
C11_LossIsStakeOrFloor ==
    rpc = "ret" =>
        /\ rout[2] > 0
        /\ ~RatLess(rout, ReturnFloor)
        /\ ~rin.wasCorrect =>
               IF RinStake <= 99 * KellyUnit
               THEN RatEq(rout, <<0 - RinStake, FullStake>>)
               ELSE RatEq(rout, ReturnFloor)

\* An incorrect prediction staked at 100% returns -0.99.
C11_Witness ==
    /\ rpc = "ret"
    /\ ~rin.wasCorrect
    /\ rin.kellyPercentage = Num(FullStake)
    /\ rin.marketProb.fin /\ ~OutOfRange(rin.marketProb)
    /\ RatEq(rout, ReturnFloor)

----------------------------------------------------------------------------
(* Claims about the summary, checked under SpecStats *)

\* C12: on an empty list the summary has total 0, accuracy 0, brierScore 0,
\* avgBrier 0, kellyROI 0, winRate 0 and an empty overTime, every ratio being
\* a number (no division by zero).
C12_EmptyIsZero ==
    (bpc = "ret" /\ bin = << >>) =>
        /\ bout.total = 0
        /\ bout.brierScore = 0
        /\ \A ratio \in {bout.accuracy, bout.avgBrier, bout.kellyROI, bout.winRate} :
               ratio[1] = 0 /\ ratio[2] # 0
        /\ bout.overTime = << >>

C12_Witness == bpc = "ret" /\ bin = << >> /\ bout.total = 0

\* The product of 1 + max(-0.99, return) over the list as it was supplied,
\* in units of 1/One^Len.
RECURSIVE ProductOfGrowth(_)
ProductOfGrowth(resolved) ==
    IF resolved = << >> THEN 1
    ELSE (One + Max(0 - 99, resolved[Len(resolved)].kellyReturn))
             * ProductOfGrowth(SubSeq(resolved, 1, Len(resolved) - 1))

\* The fixture's three bets, in any order of supply.
IsFixture(resolved) ==
    /\ Len(resolved) = 3
    /\ \E i, j, k \in 1..3 :
          /\ {i, j, k} = 1..3
          /\ resolved[i].date = 1 /\ resolved[i].kellyReturn = 50
          /\ resolved[j].date = 2 /\ resolved[j].kellyReturn = 0 - 50
          /\ resolved[k].date = 3 /\ resolved[k].kellyReturn = 20

\* C13: kellyROI of a non-empty list is the product of 1 + max(-0.99, return)
\* over its predictions, minus 1, whatever the order of supply; the fixture
\* +0.5, -0.5, +0.2 gives the multiplier 0.9 and the ROI -10%.
C13_CompoundedROI ==
    (bpc = "ret" /\ bin # << >>) =>
        /\ bout.kellyROI[2] = Pow(One, Len(bin))
        /\ bout.kellyROI[1] + bout.kellyROI[2] = ProductOfGrowth(bin)
        /\ IsFixture(bin) =>
               /\ 10 * (bout.kellyROI[1] + bout.kellyROI[2]) = 9 * bout.kellyROI[2]
               /\ RatEq(bout.kellyROI, <<0 - 10, 100>>)

\* The fixture supplied latest date first.
C13_Witness ==
    /\ bpc = "ret"
    /\ IsFixture(bin)
    /\ bin[1].date = 3 /\ bin[2].date = 2 /\ bin[3].date = 1
    /\ RatEq(bout.kellyROI, <<0 - 10, 100>>)

\* C14: the summary of a non-empty list has accuracy and winRate in
\* [0, 100], brierScore >= 0, avgBrier >= 0 and kellyROI >= -1, and the
\* bankroll multiplier is strictly positive after every step of the fold.
C14_SummaryRanges ==
    (bpc = "ret" /\ bin # << >>) =>
        /\ \A ratio \in {bout.accuracy, bout.winRate} :
               /\ ratio[2] > 0
               /\ ~RatLess(ratio, <<0, 1>>) /\ ~RatLess(<<100, 1>>, ratio)
        /\ bout.brierScore >= 0
        /\ bout.avgBrier[2] > 0 /\ bout.avgBrier[1] >= 0
        /\ bout.kellyROI[2] > 0 /\ bout.kellyROI[1] >= 0 - bout.kellyROI[2]
        /\ \A k \in 1..Len(bin) :
               Compound(1, SubSeq(SortByDate(bin), 1, k)) > 0

\* Every bet of a full list lost more than the bankroll, and the multiplier
\* is still positive.
C14_Witness ==
    /\ bpc = "ret"
    /\ Len(bin) = MaxResolved
    /\ \A i \in 1..Len(bin) : bin[i].kellyReturn < 0 - One
    /\ bout.kellyROI[1] + bout.kellyROI[2] > 0
    /\ bout.accuracy[1] = 0

----------------------------------------------------------------------------
(* Claims about the rate limiter, checked under SpecLimiter *)

\* The requests of the same ip up to and including request i whose timestamps
\* are less than a window before it.
InWindowOf(i) ==
    {j \in 1..i : /\ verdicts[j].ip = verdicts[i].ip
                  /\ verdicts[i].at - verdicts[j].at < RATE_LIMIT_WINDOW_MS}

Admitted(ip, from) ==
    {i \in 1..Len(verdicts) :
        /\ verdicts[i].ip = ip /\ ~verdicts[i].rejected
        /\ verdicts[i].at >= from
        /\ verdicts[i].at < from + RATE_LIMIT_WINDOW_MS}

\* C16: a request is rejected exactly when, counting it, more than the limit
\* of requests of its ip are within the last window; so no window holds more
\* than the limit of admitted requests of one ip, whatever other ips do.
C16_SlidingWindow ==
    /\ \A i \in 1..Len(verdicts) :
           verdicts[i].rejected <=> Cardinality(InWindowOf(i)) > RateLimit
    /\ \A ip \in Ips, from \in 0..MaxTime :
           Cardinality(Admitted(ip, from)) <= RateLimit

\* One ip is rejected, the other is admitted at the same time, and the first
\* is admitted again once its requests have left the window.
C16_Witness ==
    \E i, j, k \in 1..Len(verdicts) :
        /\ i < j /\ j < k
        /\ verdicts[i].rejected
        /\ verdicts[j].ip # verdicts[i].ip
        /\ verdicts[j].at = verdicts[i].at /\ ~verdicts[j].rejected
        /\ verdicts[k].ip = verdicts[i].ip /\ ~verdicts[k].rejected

----------------------------------------------------------------------------
(* Claims about the analysis cache, checked under SpecCache *)

\* C15: two requests with the same cache key less than a TTL apart cause at
\* most one upstream invocation, so no two invocations for one key start
\* less than a TTL apart; and an entry is never served at or after its expiry.
C15_OneInvocationPerTtl ==
    /\ \A i, j \in 1..Len(invocations) :
           (i < j /\ invocations[i].key = invocations[j].key) =>
               invocations[j].at - invocations[i].at >= ANALYSIS_CACHE_TTL_MS
    /\ (reply # << >> /\ reply.cached) =>
           /\ analysisCache[reply.key].present
           /\ analysisCache[reply.key].expiresAt > now

----------------------------------------------------------------------------
(* Claims about the batch loops, checked under SpecBatch *)

Succeeded == {i \in 1..Len(ain) : ain[i].analysis # Failed}

\* The list holds exactly the succeeded markets, once each, in prepared
\* order, each with the price of its own market and its own answer.
ExactlySucceeded(list) ==
    /\ Len(list) = Cardinality(Succeeded)
    /\ {list[k].id : k \in 1..Len(list)} = Succeeded
    /\ \A k \in 1..Len(list) : k > 1 => list[k - 1].id < list[k].id
    /\ \A k \in 1..Len(list) :
           LET item == ain[list[k].id]
           IN  /\ list[k].marketProb = item.f.price0
               /\ list[k].aiProb = item.analysis.aiProbability
               /\ list[k].prediction = item.analysis.prediction
               /\ list[k].outcomes[1] =
                      IF item.f.groupItemTitle = LEmpty THEN LYes
                      ELSE item.f.groupItemTitle

\* C17: one failing analysis neither aborts the run nor changes a sibling's
\* result: the run returns exactly the markets whose analysis succeeded, and
\* successCount + errorCount is the number of prepared markets.
C17_FailureIsolated ==
    apc = "ret" =>
        /\ ExactlySucceeded(aout.cloud.analyzedMarkets)
        /\ ExactlySucceeded(aout.client)
        /\ aout.cloud.successCount = Cardinality(Succeeded)
        /\ aout.cloud.successCount + aout.cloud.errorCount = Len(ain)

\* A failure in the first batch, successes around it and in the next batch.
C17_Witness ==
    /\ apc = "ret"
    /\ Len(ain) > BatchSize
    /\ ain[1].analysis # Failed
    /\ ain[2].analysis = Failed
    /\ ain[Len(ain)].analysis # Failed
    /\ Len(aout.cloud.analyzedMarkets) = Len(ain) - 1
    /\ aout.cloud.errorCount = 1

----------------------------------------------------------------------------
(* More claims about the stake calculator, checked under SpecKelly *)

ProbsInRange ==
    /\ kin.ai.fin /\ ~OutOfRange(kin.ai)
    /\ kin.market.fin /\ ~OutOfRange(kin.market)

\* C18: when no guardrail fires, the stake is 100 x clamp((p - m)/(1 - m), 0, 1)
\* rounded to two decimals, p the probability and m the price of the
\* predicted side; a negative Kelly value gives 0, not a stake on the other
\* side.
C18_KellyFormula ==
    (kpc = "ret" /\ ~LowConfidence /\ ~ExtremePrice /\ ~TinyEdge) =>
        LET p == KinSide.predictedProb
            m == KinSide.marketSideProb
        IN  /\ p <= m => kout = 0
            /\ p > m => kout = Round(FullStake * (p - m), One - m)

\* A stake that needed the rounding, and a negative Kelly value are both
\* cases of the formula; this is the first, for a valid input.
C18_Witness ==
    /\ kpc = "ret"
    /\ ~InvalidInput
    /\ ~LowConfidence /\ ~ExtremePrice /\ ~TinyEdge
    /\ kout > 0
    /\ (FullStake * (KinSide.predictedProb - KinSide.marketSideProb))
           % (One - KinSide.marketSideProb) # 0

\* C19: a prediction of the first outcome is sized with P(outcomeA) and the
\* price of outcomeA; a prediction of the second outcome with 1 - P(outcomeA)
\* and 1 - price, so its edge is minus the edge of the first outcome.
C19_SideNormalized ==
    (kpc = "ret" /\ ProbsInRange /\ Len(kin.outcomes) >= 2) =>
        LET edgeA == kin.ai.v - kin.market.v
            edge == calculatedEdge(kin.prediction, kin.outcomes, kin.ai.v,
                                   kin.market.v)
        IN  /\ kin.prediction = kin.outcomes[1] =>
                   /\ KinSide.predictedProb = kin.ai.v
                   /\ KinSide.marketSideProb = kin.market.v
                   /\ edge = edgeA
            /\ kin.prediction = kin.outcomes[2] =>
                   /\ KinSide.predictedProb = One - kin.ai.v
                   /\ KinSide.marketSideProb = One - kin.market.v
                   /\ KinSide.predictedProb - KinSide.marketSideProb = 0 - edgeA
                   /\ edge = 0 - edgeA

\* A stake sized for the second outcome.
C19_Witness ==
    /\ kpc = "ret"
    /\ ~InvalidInput
    /\ kin.prediction = kin.outcomes[2]
    /\ kin.ai.v < kin.market.v
    /\ kout = Round(FullStake * (kin.market.v - kin.ai.v), kin.market.v)
    /\ kout > 0

KinOutcomeA == IF Len(kin.outcomes) >= 1 THEN kin.outcomes[1] ELSE Undefined

KinOutcomeB ==
    IF Len(kin.outcomes) >= 2 /\ ~Falsy(kin.outcomes[2]) THEN kin.outcomes[2]
    ELSE LOther

\* C20: a predicted label that matches neither outcome is replaced by the
\* side the model favours, outcomeA if P(outcomeA) >= 0.5 and outcomeB
\* otherwise, so the predicted probability is at least 0.5.
C20_FallbackFavoured ==
    (kpc = "ret" /\ kin.prediction \notin {KinOutcomeA, KinOutcomeB}) =>
        LET aiA == CoerceProb(kin.ai).v
        IN  /\ KinSide.pred = IF 2 * aiA >= One THEN KinOutcomeA ELSE KinOutcomeB
            /\ KinSide.predictedProb = Max(aiA, One - aiA)
            /\ 2 * KinSide.predictedProb >= One
            /\ kout \in 0..FullStake

\* An unknown label with the model favouring the second outcome: the stake is
\* sized for the second outcome.
C20_Witness ==
    /\ kpc = "ret"
    /\ ProbsInRange /\ Len(kin.outcomes) >= 2
    /\ kin.prediction \notin {KinOutcomeA, KinOutcomeB}
    /\ 2 * kin.ai.v < One
    /\ KinSide.pred = KinOutcomeB
    /\ kout > 0

----------------------------------------------------------------------------
(* More claims about the pipeline, checked under Spec *)

SafeEntry(price) == Max(SafeEntryLow, Min(SafeEntryHigh, price))

\* The return of a correct bet as the history service scores it.
ClientCorrectReturn ==
    \A s \in Scored : s.wasCorrect =>
        LET e == SafeEntry(IF s.prediction = s.outcomes[1] THEN s.marketProb
                           ELSE One - s.marketProb)
        IN  s.kellyReturn = <<s.kellyPercentage * (One - e), FullStake * e>>

\* The return of a won bet as the scheduled resolution stores it, for the
\* side the resolution took the bet to be on.
ServerCorrectReturn ==
    \A p \in Stored : p.outcome = "win" =>
        LET e == SafeEntry(p.betProb)
        IN  RatEq(p.roi, <<p.kellyPercentage * (One - e), FullStake * e>>)

\* C21: the return of a correct prediction is stakeFraction x (1 - e)/e, e the
\* entry price of the predicted side within [0.01, 0.99], both where the
\* history service scores it and where the scheduled resolution stores it.
C21_CorrectReturn == ClientCorrectReturn /\ ServerCorrectReturn

\* The probability the model gave to the outcome a record predicts.
ProbOfPredicted(prediction, outcomes, aiProb) ==
    IF prediction = outcomes[1] THEN aiProb ELSE One - aiProb

SquaredError(p, correct) ==
    (p - (IF correct THEN One ELSE 0)) * (p - (IF correct THEN One ELSE 0))

ResolvedStored == SelectSeq(history.predictions, LAMBDA p : p.outcome # "pending")

RECURSIVE CalibrationSum(_)
CalibrationSum(preds) ==
    IF preds = << >> THEN 0
    ELSE SquaredError(ProbOfPredicted(Head(preds).aiPrediction,
                                      Head(preds).outcomes, Head(preds).aiProb),
                      Head(preds).outcome = "win")
             + CalibrationSum(Tail(preds))

\* The calibration error of every prediction the history service scores.
ClientCalibration ==
    \A s \in Scored :
        s.brierError = SquaredError(ProbOfPredicted(s.prediction, s.outcomes,
                                                    s.aiProb), s.wasCorrect)

\* The Brier sum that the scheduled resolution writes with its verdicts.
ServerCalibration ==
    history.stats.resolvedCount > 0 =>
        /\ history.stats.resolvedCount = Len(ResolvedStored)
        /\ history.stats.brierSum = CalibrationSum(ResolvedStored)

\* C22: the calibration error of a prediction is (p - I)^2, p the probability
\* the model gave to the outcome it predicted and I = 1 iff the prediction was
\* correct, and a Brier score is the sum of these, in the history service and
\* in the statistics of the scheduled resolution.
C22_BrierOfPredictedSide == ClientCalibration /\ ServerCalibration

----------------------------------------------------------------------------
(* More claims about the summary, checked under SpecStats *)

\* The summary without the compounding ROI.
OrderFree(stats) ==
    <<stats.total, stats.accuracy, stats.brierScore, stats.avgBrier,
      stats.winRate, stats.overTime>>

\* C23: the summary of any permutation of a list has the same total,
\* accuracy, brierScore, avgBrier, winRate and overTime as the summary of the
\* list.
C23_OrderIndependent ==
    bpc = "ret" =>
        \A perm \in Permutations(1..Len(bin)) :
            OrderFree(calculateBacktestStats([i \in 1..Len(bin) |-> bin[perm[i]]]))
                = OrderFree(bout)

\* A list supplied latest date first, a correct prediction before an
\* incorrect one.
C23_Witness ==
    /\ bpc = "ret"
    /\ Len(bin) = 3
    /\ bin[1].date > bin[2].date /\ bin[2].date > bin[3].date
    /\ bin[1].wasCorrect /\ ~bin[2].wasCorrect
    /\ Len(bout.overTime) = 3
    /\ bout.overTime[1].date = bin[3].date

DatesOf(resolved) == {resolved[i].date : i \in 1..Len(resolved)}

RECURSIVE SumOfCounts(_)
SumOfCounts(entries) ==
    IF entries = << >> THEN 0
    ELSE Head(entries).count + SumOfCounts(Tail(entries))

\* C24: overTime has one entry for every date that occurs among the
\* predictions and no other, in strictly ascending order of date; the count of
\* an entry is the number of predictions of its date, and the counts sum to
\* total.
C24_OverTime ==
    bpc = "ret" =>
        /\ {bout.overTime[i].date : i \in 1..Len(bout.overTime)} = DatesOf(bin)
        /\ Len(bout.overTime) = Cardinality(DatesOf(bin))
        /\ \A i \in 1..(Len(bout.overTime) - 1) :
               bout.overTime[i].date < bout.overTime[i + 1].date
        /\ \A i \in 1..Len(bout.overTime) :
               bout.overTime[i].count =
                   Cardinality({j \in 1..Len(bin) :
                                   bin[j].date = bout.overTime[i].date})
        /\ SumOfCounts(bout.overTime) = bout.total

\* Two predictions of a later date supplied around one of an earlier date.
C24_Witness ==
    /\ bpc = "ret"
    /\ Len(bin) = 3
    /\ bin[1].date = bin[3].date /\ bin[2].date < bin[1].date
    /\ bout.overTime = <<[date |-> bin[2].date, count |-> 1],
                         [date |-> bin[1].date, count |-> 2]>>

----------------------------------------------------------------------------
(* The batch loops step by step: which upstream calls are in flight *)

\* A run over n prepared markets: i is the loop index of lines 751, inFlight
\* the markets whose analysis was called and has not settled, calls the
\* number of analysis calls per market, batches the number of Promise.all or
\* Promise.allSettled awaited.
FlightInit ==
    /\ IdleKelly
    /\ IdlePipeline
    /\ IdleMatch
    /\ IdleReturn
    /\ IdleStats
    /\ IdleServer
    /\ IdleBatch
    /\ IdleTasks
    /\ \E side \in {"cloud", "client"}, n \in 0..MaxPrepared :
          flight = [side |-> side, n |-> n, i |-> 0, phase |-> "loop",
                    inFlight |-> {}, calls |-> [k \in 1..n |-> 0],
                    settled |-> [k \in 1..n |-> "no"], batches |-> 0]

FlightFrame ==
    UNCHANGED <<tvars, avars, kvars, pvars, mvars, rvars, bvars, svars>>

\* fetchAndAnalyzeMarkets, lines 751-755 and 811: the slice of the next
\* BatchSize markets is mapped to analysis calls, which are awaited together.
CloudStartBatch ==
    /\ flight.side = "cloud" /\ flight.phase = "loop"
    /\ flight.i < flight.n
    /\ LET batch == (flight.i + 1)..Min(flight.i + BatchSize, flight.n)
       IN  flight' = [flight EXCEPT
                         !.inFlight = batch,
                         !.calls = [k \in 1..flight.n |->
                                       IF k \in batch THEN @[k] + 1 ELSE @[k]],
                         !.batches = @ + 1,
                         !.phase = "await"]
    /\ FlightFrame

\* Line 751: the loop ends when the index is past the last prepared market.
CloudLoopEnds ==
    /\ flight.side = "cloud" /\ flight.phase = "loop"
    /\ flight.i >= flight.n
    /\ flight' = [flight EXCEPT !.phase = "done"]
    /\ FlightFrame

\* One analysis call settles: it answered, or it threw.
Settle(k) ==
    /\ k \in flight.inFlight
    /\ \E result \in {"fulfilled", "rejected"} :
          flight' = [flight EXCEPT !.inFlight = @ \ {k}, !.settled[k] = result]
    /\ FlightFrame

\* Lines 811-827: Promise.all resolves when every call of the batch has
\* settled; a pause follows unless this was the last batch.
CloudBatchSettled ==
    /\ flight.side = "cloud" /\ flight.phase = "await"
    /\ flight.inFlight = {}
    /\ flight' = IF flight.i + BatchSize < flight.n
                 THEN [flight EXCEPT !.phase = "pause"]
                 ELSE [flight EXCEPT !.phase = "loop", !.i = @ + BatchSize]
    /\ FlightFrame

\* Line 826: the timeout of the pause fires.
CloudPauseElapsed ==
    /\ flight.side = "cloud" /\ flight.phase = "pause"
    /\ flight' = [flight EXCEPT !.phase = "loop", !.i = @ + BatchSize]
    /\ FlightFrame

\* fetchAndAnalyzeFreshMarkets, part_002 lines 204-219: every prepared market
\* is mapped to an analysis call, and Promise.allSettled awaits them all.
ClientStartAll ==
    /\ flight.side = "client" /\ flight.phase = "loop"
    /\ flight' = [flight EXCEPT
                     !.inFlight = 1..flight.n,
                     !.calls = [k \in 1..flight.n |-> @[k] + 1],
                     !.batches = IF flight.n > 0 THEN @ + 1 ELSE @,
                     !.phase = "await"]
    /\ FlightFrame

\* Promise.allSettled resolves when every call has settled.
ClientAllSettled ==
    /\ flight.side = "client" /\ flight.phase = "await"
    /\ flight.inFlight = {}
    /\ flight' = [flight EXCEPT !.phase = "done", !.i = flight.n]
    /\ FlightFrame

FlightNext ==
    \/ CloudStartBatch
    \/ CloudLoopEnds
    \/ \E k \in 1..MaxPrepared : Settle(k)
    \/ CloudBatchSettled
    \/ CloudPauseElapsed
    \/ ClientStartAll
    \/ ClientAllSettled

SpecFlight == FlightInit /\ [][FlightNext]_vars

----------------------------------------------------------------------------
(* Claims about the calls in flight, checked under SpecFlight *)

\* Batches needed for n markets: ceil(n / BatchSize).
BatchesFor(n) == (n + BatchSize - 1) \div BatchSize

\* The claim's bound for a run of side.
BoundedBatches(side) ==
    flight.side = side =>
        /\ Cardinality(flight.inFlight) <= BatchSize
        /\ flight.phase \in {"loop", "pause", "done"} => flight.inFlight = {}
        /\ flight.phase = "done" =>
               /\ \A k \in 1..flight.n :
                      flight.calls[k] = 1 /\ flight.settled[k] # "no"
               /\ flight.batches = BatchesFor(flight.n)

\* C25: at most BatchSize analysis calls are in flight at any moment, a batch
\* starts only when no call of an earlier batch is in flight, and at the end
\* every prepared market was analysed exactly once, in ceil(n / BatchSize)
\* batches, in the cloud functions and in the client.
C25_BoundedBatches == BoundedBatches("cloud") /\ BoundedBatches("client")

----------------------------------------------------------------------------
(* The writers of the date's document step by step: each reads, awaits and *)
(* writes, and the steps of different writers interleave                   *)

\* Runs of writers started in one behaviour.
MaxRuns == 3

NoDoc == [exists |-> FALSE, predictions |-> << >>, stats |-> NoStats]

IdsOf(markets) == {markets[i].id : i \in 1..Len(markets)}

TasksInit ==
    /\ IdleKelly
    /\ IdleMatch
    /\ IdleReturn
    /\ IdleStats
    /\ IdleServer
    /\ IdleBatch
    /\ IdleFlight
    /\ feed \in [Markets -> [outcomes : {<<LYes, LNo>>},
                             groupItemTitle : {LEmpty, LCandX},
                             closed : {FALSE}, price0 : OpenPrices]]
    /\ \A m \in Markets : feed[m].groupItemTitle = GroupTitle(m)
    /\ history = NoDoc
    /\ scored = << >>
    /\ tasks = [resolver |-> [pc |-> "idle", snapshot |-> NoDoc],
                hourly |-> [pc |-> "idle", markets |-> << >>, snapshot |-> NoDoc,
                            result |-> "none"],
                hourlyPicks |-> {},
                runs |-> 0]

TaskPicks ==
    {pick \in CloudPicks :
        \A m \in Markets : pick[m] # Failed => pick[m].aiProbability = 85}

\* A market closes and settles for its first or its second outcome.
MarketSettles(m) ==
    /\ ~feed[m].closed
    /\ \E p \in {0, One} :
           feed' = [feed EXCEPT ![m].closed = TRUE, ![m].price0 = p]
    /\ UNCHANGED <<history, tasks>>
    /\ UNCHANGED <<fvars, avars, kvars, mvars, rvars, bvars, svars, scored>>

TasksFrame == UNCHANGED <<fvars, avars, kvars, mvars, rvars, bvars, svars, scored>>

\* dailyRefresh: the analysis, then saveToFirestore's set() of the document.
DailySave ==
    /\ tasks.runs < MaxRuns
    /\ \E pick \in TaskPicks :
          LET markets == CloudMarkets(1, pick)
          IN  /\ Len(markets) > 0
              /\ history' = SavedDocument(markets)
    /\ tasks' = [tasks EXCEPT !.runs = @ + 1]
    /\ UNCHANGED feed
    /\ TasksFrame

\* hourlyRefresh up to line 912: the analysis and the set() of hourly_picks.
HourlyStart ==
    /\ tasks.runs < MaxRuns
    /\ tasks.hourly.pc = "idle"
    /\ \E pick \in TaskPicks :
          LET markets == CloudMarkets(1, pick)
          IN  /\ Len(markets) > 0
              /\ tasks' = [tasks EXCEPT
                              !.hourly = [pc |-> "saved", markets |-> markets,
                                          snapshot |-> NoDoc, result |-> "none"],
                              !.hourlyPicks = IdsOf(markets),
                              !.runs = @ + 1]
    /\ UNCHANGED <<feed, history>>
    /\ TasksFrame

\* Lines 921-930: historyRef.get().
HourlyRead ==
    /\ tasks.hourly.pc = "saved"
    /\ tasks' = [tasks EXCEPT !.hourly.pc = "read", !.hourly.snapshot = history]
    /\ UNCHANGED <<feed, history>>
    /\ TasksFrame

\* Lines 932-975: the new markets are appended to the predictions that were
\* read and the array is written with set(..., {merge: true}); nothing is
\* written when no market is new.
HourlyWrite ==
    /\ tasks.hourly.pc = "read"
    /\ LET merged == MergedDocument(tasks.hourly.snapshot, tasks.hourly.markets)
       IN  IF merged # tasks.hourly.snapshot
           THEN /\ history' = [exists |-> TRUE,
                               predictions |-> merged.predictions,
                               stats |-> history.stats]
                /\ tasks' = [tasks EXCEPT !.hourly.pc = "idle",
                                          !.hourly.result = "merged"]
           ELSE /\ UNCHANGED history
                /\ tasks' = [tasks EXCEPT !.hourly.pc = "idle",
                                          !.hourly.result = "nothing new"]
    /\ UNCHANGED feed
    /\ TasksFrame

\* Lines 976-979: the get() or the set() of the merge throws; the error is
\* logged and saveToHourlyFirestore returns normally.
HourlyMergeFails ==
    /\ tasks.hourly.pc \in {"saved", "read"}
    /\ tasks' = [tasks EXCEPT !.hourly.pc = "idle", !.hourly.result = "merge failed"]
    /\ UNCHANGED <<feed, history>>
    /\ TasksFrame

\* resolvePendingMarkets, lines 1125-1139: the document is read; one with no
\* pending item is skipped.
ResolverRead ==
    /\ tasks.runs < MaxRuns
    /\ tasks.resolver.pc = "idle"
    /\ history.exists
    /\ \E i \in 1..Len(history.predictions) :
           history.predictions[i].outcome = "pending"
    /\ tasks' = [tasks EXCEPT !.resolver = [pc |-> "read", snapshot |-> history],
                              !.runs = @ + 1]
    /\ UNCHANGED <<feed, history>>
    /\ TasksFrame

\* Lines 1143-1258: after the event lookups, the items that were read are
\* written back with update() when one of them was resolved.
ResolverWrite ==
    /\ tasks.resolver.pc = "read"
    /\ LET read == tasks.resolver.snapshot.predictions
           pendingIds == {read[i].marketId :
                             i \in {j \in 1..Len(read) : read[j].outcome = "pending"}}
       IN  \E fetched \in SUBSET pendingIds :
              LET predictions ==
                      [i \in 1..Len(read) |->
                          ItemAfterCheck(read[i], feed[read[i].marketId],
                                         read[i].marketId \in fetched)]
                  hasUpdates == predictions # read
              IN  IF hasUpdates
                  THEN history' = [history EXCEPT
                                      !.predictions = predictions,
                                      !.stats = ResolutionStats(predictions)]
                  ELSE UNCHANGED history
    /\ tasks' = [tasks EXCEPT !.resolver.pc = "idle"]
    /\ UNCHANGED feed
    /\ TasksFrame

TasksNext ==
    \/ \E m \in Markets : MarketSettles(m)
    \/ DailySave
    \/ HourlyStart
    \/ HourlyRead
    \/ HourlyWrite
    \/ HourlyMergeFails
    \/ ResolverRead
    \/ ResolverWrite

SpecTasks == TasksInit /\ [][TasksNext]_vars

----------------------------------------------------------------------------
(* Claims about the writers of the document, checked under SpecTasks *)

\* The markets of a refresh whose id the predictions do not hold, in order.
RECURSIVE NotHeld(_, _)
NotHeld(markets, predictions) ==
    IF markets = << >> THEN << >>
    ELSE IF \E i \in 1..Len(predictions) :
                predictions[i].marketId = Head(markets).id
         THEN NotHeld(Tail(markets), predictions)
         ELSE <<Head(markets)>> \o NotHeld(Tail(markets), predictions)

\* A step in which the hourly merge, having read the document as it is now,
\* ends with the given result.
HourlyEnds(result) ==
    /\ tasks.hourly.pc = "read"
    /\ tasks.hourly.snapshot = history
    /\ tasks'.hourly.pc = "idle"
    /\ tasks'.hourly.result = result

C27_NoLostUpdate ==
    [][(tasks.resolver.pc = "read" /\ tasks'.resolver.pc = "idle") =>
           /\ \A p \in Stored :
                  \E i \in 1..Len(history'.predictions) :
                      /\ history'.predictions[i].marketId = p.marketId
                      /\ history'.predictions[i].aiPrediction = p.aiPrediction
                      /\ p.outcome # "pending" =>
                             history'.predictions[i].outcome = p.outcome
           /\ \A i, j \in 1..Len(history'.predictions) :
                  history'.predictions[i].marketId = history'.predictions[j].marketId
                      => i = j]_vars

----------------------------------------------------------------------------
(* More claims about the rate limiter, checked under SpecLimiter *)

\* The requests of the same ip before request i that are less than a window
\* older than it, admitted or rejected.
EarlierInWindow(i) ==
    {j \in 1..(i - 1) : /\ verdicts[j].ip = verdicts[i].ip
                        /\ verdicts[i].at - verdicts[j].at < RATE_LIMIT_WINDOW_MS}

RequestsOf(ip) == {i \in 1..Len(verdicts) : verdicts[i].ip = ip}

\* C28: the bucket of an ip holds the timestamp of every request of the ip
\* still in the window of its last one, rejected ones too; a request is
\* admitted exactly when fewer than the limit of the earlier requests of its
\* ip are less than a window old, so the first request after a silence of a
\* full window is admitted.
C28_LimiterRecovery ==
    /\ \A ip \in Ips : \A last \in RequestsOf(ip) :
           (\A i \in RequestsOf(ip) : i <= last) =>
               Len(rateBuckets[ip]) = Cardinality(EarlierInWindow(last)) + 1
    /\ \A i \in 1..Len(verdicts) :
           ~verdicts[i].rejected <=> Cardinality(EarlierInWindow(i)) < RateLimit
    /\ \A i \in 1..Len(verdicts) :
           EarlierInWindow(i) = {} => ~verdicts[i].rejected

\* An ip was rejected, asked again later and was rejected again, then was
\* silent for a window and is admitted.
C28_Witness ==
    \E i, j, k \in 1..Len(verdicts) :
        /\ i < j /\ j < k
        /\ verdicts[j].ip = verdicts[i].ip /\ verdicts[k].ip = verdicts[i].ip
        /\ verdicts[i].rejected /\ verdicts[j].rejected
        /\ verdicts[j].at > verdicts[i].at
        /\ verdicts[k].at - verdicts[j].at >= RATE_LIMIT_WINDOW_MS
        /\ EarlierInWindow(k) = {}
        /\ ~verdicts[k].rejected

----------------------------------------------------------------------------
(* More claims about the matcher, checked under SpecMatch *)

\* C29: the side for which the stake of a stored prediction is sized is the
\* side whose probability and entry price the history service scores it with,
\* and the side its correctness is decided for, whatever the spelling of the
\* predicted label.
C29_SameSide ==
    mpc = "ret" =>
        /\ mout.client.brierError
               = SquaredError(mout.sized.predictedProb, mout.client.wasCorrect)
        /\ mout.client.wasCorrect =>
               /\ mout.client.kellyReturn
                      = <<mout.client.kellyPercentage * (One - mout.sized.marketSideProb),
                          FullStake * mout.sized.marketSideProb>>
               /\ mout.sized.pred = min.record.outcomes[1]
                      <=> norm(min.winner) = norm(min.record.outcomes[1])

----------------------------------------------------------------------------
(* getResolvedPredictions from scoring to summary: lines 204-299 *)

\* A return as the summary's fixed-point number, in units of 1/One; the
\* returns of ScoreInputs are whole numbers of these units.
InUnits(return) ==
    IF return[1] >= 0 THEN (return[1] * One) \div return[2]
    ELSE 0 - ((0 - return[1]) * One) \div return[2]

\* Lines 207-290 for a record with a resolved outcome, given its verdict.
ResolvedOf(p) ==
    LET predictedProb == IF p.isPredFirst THEN p.aiProb ELSE One - p.aiProb
        actualProb == IF p.wasCorrect THEN One ELSE 0
    IN  [date |-> p.date, wasCorrect |-> p.wasCorrect,
         brierError |-> (predictedProb - actualProb) * (predictedProb - actualProb),
         kellyReturn |-> InUnits(RealizedReturn(p.wasCorrect, p.kellyPercentage,
                                                p.marketProb, p.isPredFirst))]

\* Stored records with their verdicts: no stake, a stake that is no number, a
\* stake of 20% and of 100%, on the first or the second outcome of an even
\* market.
ScoreInputs ==
    [date : {1}, wasCorrect : BOOLEAN, aiProb : {85},
     kellyPercentage : {NaN, Num(0), Num(20 * KellyUnit), Num(FullStake)},
     marketProb : {Num(50)}, isPredFirst : BOOLEAN]

\* getResolvedPredictions returns null for an empty list of resolved
\* predictions (line 295); the lists here have at least one.
ScoreInit ==
    /\ IdleFlight
    /\ IdleTasks
    /\ IdleKelly
    /\ IdlePipeline
    /\ IdleMatch
    /\ IdleReturn
    /\ IdleServer
    /\ IdleBatch
    /\ bpc = "call"
    /\ bin \in UNION {[1..n -> ScoreInputs] : n \in 1..MaxResolved}
    /\ bout = << >>

\* Lines 204-299: every record is scored, and the summary is computed over
\* the scored predictions.
ScoreAndSummarize ==
    /\ bpc = "call"
    /\ bpc' = "ret"
    /\ bout' = calculateBacktestStats([i \in 1..Len(bin) |-> ResolvedOf(bin[i])])
    /\ UNCHANGED <<fvars, tvars, avars, bin, kvars, pvars, mvars, rvars, svars>>

ScoreNext == ScoreAndSummarize

SpecScore == ScoreInit /\ [][ScoreNext]_vars

----------------------------------------------------------------------------
(* Claims about scoring and summary together, checked under SpecScore *)

CorrectOnes == {i \in 1..Len(bin) : bin[i].wasCorrect}

StakedOnes == {i \in 1..Len(bin) : KellyPctOf(bin[i].kellyPercentage) > 0}

\* C30: winRate is at most accuracy: the predictions that count for winRate
\* are exactly the correct ones with a stake above 0, so a correct prediction
\* with no stake counts for accuracy only and an incorrect one for neither.
C30_WinRateAtMostAccuracy ==
    bpc = "ret" =>
        /\ ~RatLess(bout.accuracy, bout.winRate)
        /\ bout.accuracy = <<100 * Cardinality(CorrectOnes), Len(bin)>>
        /\ bout.winRate = <<100 * Cardinality(CorrectOnes \cap StakedOnes), Len(bin)>>

\* A correct prediction with no stake, a correct one with a stake and an
\* incorrect one with a stake: winRate is one third, accuracy two thirds.
C30_Witness ==
    /\ bpc = "ret"
    /\ Len(bin) = 3
    /\ \E i, j, k \in 1..3 :
          /\ bin[i].wasCorrect /\ bin[i].kellyPercentage = Num(0)
          /\ bin[j].wasCorrect /\ bin[j].kellyPercentage = Num(FullStake)
          /\ ~bin[k].wasCorrect /\ bin[k].kellyPercentage = Num(FullStake)
    /\ bout.winRate = <<100, 3>>
    /\ bout.accuracy = <<200, 3>>

====
